---------------------------- MODULE Spec2Model ----------------------------
(***************************************************************************)
(* A model of the indra BeeScript core: the task-graph validator and the   *)
(* batch scheduler (src/indra/beescript.py), the executor's status         *)
(* operations on a script, and the credit ledger (src/indra/credits.py).   *)
(*                                                                         *)
(* Strings are TLA+ strings; the empty string "" and the blank string " "  *)
(* are the two strings Python's `not s or not s.strip()` rejects.  A       *)
(* task's `after` list is a sequence of ids, as in the source.  The opaque *)
(* payloads no operation reads (params, result, descriptions, timestamps)  *)
(* are not part of the state; the error text is a single token.            *)
(***************************************************************************)
EXTENDS Integers, Sequences, FiniteSets, TLC

VARIABLES
    script,               \* the BeeScript: goal, budget_credits, subtasks, total_cost
    errors,               \* BeeScriptValidator.errors
    warnings,             \* BeeScriptValidator.warnings
    op,                   \* the last operation called, its arguments and what it returned
    accounts,             \* CreditManager.accounts: the dict session id -> account
    transaction_counter,  \* CreditManager.transaction_counter
    frame,                \* per concurrent caller of charge_credits: statement, locals, result
    now,                  \* the clock: minutes since the run of the script started
    queue,                \* Router.queue_dir: file name -> content of the task file
    results,              \* Router.results_dir: the task ids that have a result file
    WORKER_REGISTRY,      \* base_worker.WORKER_REGISTRY: the dict worker name -> class
    workers_imported,     \* the modules of indra.workers that have been imported
    sessions,             \* MemoryManager.sessions: the dict session id -> WorkflowMemory
    storage,              \* MemoryManager.storage_dir: session id -> persisted session
    entries               \* WorkflowMemory.entries of one session: the dict, in its order

vars == <<script, errors, warnings, op, accounts, transaction_counter, frame, now,
          queue, results, WORKER_REGISTRY, workers_imported, sessions, storage,
          entries>>

\* The state of the router with its workers, and of the memory manager.
router == <<queue, results, WORKER_REGISTRY, workers_imported>>
memory == <<sessions, storage, entries>>

(***************************************************************************)
(* Bounds of the model.                                                    *)
(***************************************************************************)
MaxTasks == 3        \* tasks of a candidate graph
MaxDeps == 3         \* dependency entries of a candidate graph, over all tasks
MaxDefectDeps == 2   \* dependency entries of a candidate graph that has a defect
MaxErrors == 2       \* entries of the validator's error list before a direct call
MaxRetryMax == 2     \* retry_max of the tasks of a run
MaxActualCost == 2   \* actual_cost reported with one outcome
MaxTotalCost == 4    \* total_cost up to which outcomes are reported
MaxRetryCount == 2   \* retry_count up to which failures are reported
RunBudget == 3       \* budget_credits of the graphs of a run
MaxBudget == 3       \* initial_budget of an account
MaxAmount == 3       \* amount of a charge or a refund
MaxTransactions == 4 \* transactions a manager records

None == "None"

(***************************************************************************)
(* TaskStatus, beescript.py:16-23.                                         *)
(***************************************************************************)
PENDING == "PENDING"
READY == "READY"
IN_PROGRESS == "IN_PROGRESS"
COMPLETED == "COMPLETED"
FAILED == "FAILED"
SKIPPED == "SKIPPED"

TaskStatus == {PENDING, READY, IN_PROGRESS, COMPLETED, FAILED, SKIPPED}

\* `not s or not s.strip()`
IsBlank(s) == s \in {"", " "}

\* BeeScriptTask(...) with the dataclass defaults of the runtime fields.
BeeScriptTask(id, agent, task, after, cost_estimate, retry_max, timeout_seconds) ==
    [id |-> id, agent |-> agent, task |-> task, after |-> after,
     cost_estimate |-> cost_estimate, retry_max |-> retry_max,
     timeout_seconds |-> timeout_seconds,
     status |-> PENDING, actual_cost |-> 0, retry_count |-> 0,
     error_message |-> None]

\* BeeScript(...) with timeout_minutes and total_cost at their defaults.
BeeScript(goal, budget_credits, subtasks) ==
    [goal |-> goal, budget_credits |-> budget_credits, timeout_minutes |-> 10,
     subtasks |-> subtasks, total_cost |-> 0]

Range(s) == {s[i] : i \in DOMAIN s}

RECURSIVE SumSeq(_)
SumSeq(s) == IF s = <<>> THEN 0 ELSE Head(s) + SumSeq(Tail(s))

Err(kind, ref) == [kind |-> kind, ref |-> ref]

\* No error appended.
NoError == Err("", "")

(***************************************************************************)
(* BeeScriptValidator                                                      *)
(***************************************************************************)
\* A variant of _validate_task without the check of retry_max.
ValidateTaskErrorNoRetryCheck(task, existing_ids) ==
    IF IsBlank(task.id) THEN Err("task_id_empty", task.id)
    ELSE IF task.id \in existing_ids THEN Err("duplicate_task_id", task.id)
    ELSE IF IsBlank(task.agent) THEN Err("agent_empty", task.id)
    ELSE IF IsBlank(task.task) THEN Err("task_type_empty", task.id)
    ELSE IF task.cost_estimate <= 0 THEN Err("cost_estimate_not_positive", task.id)
    ELSE IF task.timeout_seconds <= 0 THEN Err("timeout_not_positive", task.id)
    ELSE NoError

\* _validate_task: the error it appends, or NoError when the task passes.
ValidateTaskError(task, existing_ids) ==
    IF IsBlank(task.id) THEN Err("task_id_empty", task.id)
    ELSE IF task.id \in existing_ids THEN Err("duplicate_task_id", task.id)
    ELSE IF IsBlank(task.agent) THEN Err("agent_empty", task.id)
    ELSE IF IsBlank(task.task) THEN Err("task_type_empty", task.id)
    ELSE IF task.cost_estimate <= 0 THEN Err("cost_estimate_not_positive", task.id)
    ELSE IF task.retry_max < 0 THEN Err("retry_max_negative", task.id)
    ELSE IF task.timeout_seconds <= 0 THEN Err("timeout_not_positive", task.id)
    ELSE NoError

\* The task loop of validate: the first error of the first failing task, or NoError.
RECURSIVE ValidateTasksFrom(_, _, _)
ValidateTasksFrom(subtasks, i, task_ids) ==
    IF i > Len(subtasks) THEN NoError
    ELSE LET e == ValidateTaskError(subtasks[i], task_ids)
         IN IF e /= NoError THEN e
            ELSE ValidateTasksFrom(subtasks, i + 1, task_ids \cup {subtasks[i].id})

\* The missing-dependency loop: the first unknown dependency in list order, or NoError.
RECURSIVE FirstUnknownDep(_, _, _, _)
FirstUnknownDep(tasks, task_ids, i, k) ==
    IF i > Len(tasks) THEN NoError
    ELSE IF k > Len(tasks[i].after) THEN FirstUnknownDep(tasks, task_ids, i + 1, 1)
    ELSE IF tasks[i].after[k] \notin task_ids THEN Err("unknown_dependency", tasks[i].id)
    ELSE FirstUnknownDep(tasks, task_ids, i, k + 1)

\* graph = {task.id: task.after for task in tasks}: a later task with the same id
\* replaces the entry of an earlier one.
LastIndexOf(tasks, id) ==
    CHOOSE i \in DOMAIN tasks :
        /\ tasks[i].id = id
        /\ \A j \in DOMAIN tasks : tasks[j].id = id => j <= i

AdjacencyOf(tasks) ==
    [id \in {tasks[i].id : i \in DOMAIN tasks} |-> tasks[LastIndexOf(tasks, id)].after]

\* The keys of the dict in insertion order: the ids in order of first occurrence.
RECURSIVE KeysInOrder(_, _, _)
KeysInOrder(tasks, i, seen) ==
    IF i > Len(tasks) THEN <<>>
    ELSE IF tasks[i].id \in seen THEN KeysInOrder(tasks, i + 1, seen)
    ELSE <<tasks[i].id>> \o KeysInOrder(tasks, i + 1, seen \cup {tasks[i].id})

\* dfs(node) with the visit states 0=unvisited, 1=visiting, 2=visited.
RECURSIVE Dfs(_, _, _), DfsNeighbors(_, _, _, _)

\* A variant of dfs with two colours: any node seen before counts as a cycle.
DfsTwoColour(graph, node, state) ==
    IF state[node] /= 0 THEN [found |-> TRUE, state |-> state]
    ELSE DfsNeighbors(graph, node, 1, [state EXCEPT ![node] = 1])

Dfs(graph, node, state) ==
    IF state[node] = 1 THEN [found |-> TRUE, state |-> state]
    ELSE IF state[node] = 2 THEN [found |-> FALSE, state |-> state]
    ELSE DfsNeighbors(graph, node, 1, [state EXCEPT ![node] = 1])

DfsNeighbors(graph, node, k, state) ==
    IF k > Len(graph[node])
    THEN [found |-> FALSE, state |-> [state EXCEPT ![node] = 2]]
    ELSE LET r == Dfs(graph, graph[node][k], state)
         IN IF r.found THEN r ELSE DfsNeighbors(graph, node, k + 1, r.state)

\* `for node in graph: if state[node] == 0 and dfs(node): return True`
RECURSIVE DfsRoots(_, _, _, _)
DfsRoots(graph, keys, i, state) ==
    IF i > Len(keys) THEN FALSE
    ELSE IF state[keys[i]] /= 0 THEN DfsRoots(graph, keys, i + 1, state)
    ELSE LET r == Dfs(graph, keys[i], state)
         IN IF r.found THEN TRUE ELSE DfsRoots(graph, keys, i + 1, r.state)

HasCircularDependencies(tasks) ==
    LET graph == AdjacencyOf(tasks)
    IN DfsRoots(graph, KeysInOrder(tasks, 1, {}), 1, [id \in DOMAIN graph |-> 0])

\* _validate_dependencies: what it returns and the errors it appends.
ValidateDependencies(tasks) ==
    LET task_ids == {tasks[i].id : i \in DOMAIN tasks}
        missing == FirstUnknownDep(tasks, task_ids, 1, 1)
    IN IF missing /= NoError THEN [ok |-> FALSE, errs |-> <<missing>>]
       ELSE IF HasCircularDependencies(tasks)
            THEN [ok |-> FALSE, errs |-> <<Err("circular_dependency", "")>>]
            ELSE [ok |-> TRUE, errs |-> <<>>]

TotalEstimatedCost(s) == SumSeq([i \in DOMAIN s.subtasks |-> s.subtasks[i].cost_estimate])

\* A variant of _validate_budget that only warns about an estimate over the budget.
ValidateBudgetWarnOnly(s) ==
    [ok |-> TRUE, errs |-> <<>>,
     warns |-> IF 10 * TotalEstimatedCost(s) > 9 * s.budget_credits
               THEN <<"budget_tight">> ELSE <<>>]

\* _validate_budget: what it returns, the errors and the warnings it appends.
\* total > budget * 0.9 is compared in integers (10 * total > 9 * budget).
ValidateBudget(s) ==
    LET total_estimated_cost == TotalEstimatedCost(s)
    IN IF total_estimated_cost > s.budget_credits
       THEN [ok |-> FALSE, errs |-> <<Err("over_budget", "")>>, warns |-> <<>>]
       ELSE [ok |-> TRUE, errs |-> <<>>,
             warns |-> IF 10 * total_estimated_cost > 9 * s.budget_credits
                       THEN <<"budget_tight">> ELSE <<>>]

\* validate from its basic checks on, on empty lists: the value returned, the
\* errors and the warnings appended.
Validate(s) ==
    LET basic == (IF IsBlank(s.goal) THEN <<Err("goal_empty", "")>> ELSE <<>>)
                 \o (IF s.budget_credits <= 0 THEN <<Err("budget_not_positive", "")>> ELSE <<>>)
                 \o (IF s.subtasks = <<>> THEN <<Err("no_subtasks", "")>> ELSE <<>>)
        taskErr == ValidateTasksFrom(s.subtasks, 1, {})
        deps == ValidateDependencies(s.subtasks)
        budget == ValidateBudget(s)
    IN IF taskErr /= NoError
       THEN [ok |-> FALSE, errors |-> Append(basic, taskErr), warnings |-> <<>>]
       ELSE IF ~deps.ok
       THEN [ok |-> FALSE, errors |-> basic \o deps.errs, warnings |-> <<>>]
       ELSE IF ~budget.ok
       THEN [ok |-> FALSE, errors |-> basic \o budget.errs, warnings |-> <<>>]
       ELSE [ok |-> basic = <<>>, errors |-> basic, warnings |-> budget.warns]

\* A variant of the clearing that keeps what the list held.
NotCleared(list) == list

\* self.errors.clear(), self.warnings.clear()
Cleared(list) == <<>>

\* validator.validate(script) on a validator whose lists hold prior_errors and
\* prior_warnings: the value returned (len(self.errors) == 0 unless a check
\* returned False before), and both lists after the call.
ValidateCall(prior_errors, prior_warnings, s) ==
    LET r == Validate(s)
        errs == Cleared(prior_errors) \o r.errors
    IN [ok |-> r.ok /\ errs = <<>>,
        errors |-> errs,
        warnings |-> Cleared(prior_warnings) \o r.warnings]

(***************************************************************************)
(* BeeScriptExecutor: the scheduler                                        *)
(***************************************************************************)
\* A variant of the pass with any() for all(): a task with dependencies is taken
\* as soon as one of them is scheduled.
ReadyBatchAny(tasks, remaining) ==
    LET ready(i) == /\ tasks[i].id \in remaining
                    /\ \/ tasks[i].after = <<>>
                       \/ \E k \in DOMAIN tasks[i].after : tasks[i].after[k] \notin remaining
        idx == SelectSeq([i \in DOMAIN tasks |-> i], ready)
    IN [k \in DOMAIN idx |-> tasks[idx[k]].id]

\* A variant of the pass that takes one task at a time: the first in list order
\* none of whose dependencies is still remaining.
ReadyBatchFirst(tasks, remaining) ==
    LET ready(i) == /\ tasks[i].id \in remaining
                    /\ \A k \in DOMAIN tasks[i].after : tasks[i].after[k] \notin remaining
        idx == SelectSeq([i \in DOMAIN tasks |-> i], ready)
    IN IF idx = <<>> THEN <<>> ELSE <<tasks[idx[1]].id>>

\* One pass of the while loop of get_execution_order: the ids of the remaining
\* tasks, in list order, none of whose dependencies is still remaining.
ReadyBatch(tasks, remaining) ==
    LET ready(i) == /\ tasks[i].id \in remaining
                    /\ \A k \in DOMAIN tasks[i].after : tasks[i].after[k] \notin remaining
        idx == SelectSeq([i \in DOMAIN tasks |-> i], ready)
    IN [k \in DOMAIN idx |-> tasks[idx[k]].id]

RECURSIVE BatchesFrom(_, _)
BatchesFrom(tasks, remaining) ==
    IF remaining = {} THEN [raised |-> FALSE, batches |-> <<>>]
    ELSE LET ready_batch == ReadyBatch(tasks, remaining)
         IN IF ready_batch = <<>>
            THEN [raised |-> TRUE, batches |-> <<>>]
            ELSE LET rest == BatchesFrom(tasks, remaining \ Range(ready_batch))
                 IN [raised |-> rest.raised,
                     batches |-> IF rest.raised THEN <<>>
                                 ELSE <<ready_batch>> \o rest.batches]

\* get_execution_order: raises ValueError for a script its validator rejects.
GetExecutionOrder(s) ==
    IF ~Validate(s).ok THEN [raised |-> TRUE, batches |-> <<>>]
    ELSE BatchesFrom(s.subtasks, {s.subtasks[i].id : i \in DOMAIN s.subtasks})

(***************************************************************************)
(* BeeScriptExecutor: the status operations                                *)
(***************************************************************************)
\* _find_task_by_id: the position of the first task with that id, 0 for None.
FindTaskById(s, task_id) ==
    IF \E i \in DOMAIN s.subtasks : s.subtasks[i].id = task_id
    THEN CHOOSE i \in DOMAIN s.subtasks :
            /\ s.subtasks[i].id = task_id
            /\ \A j \in DOMAIN s.subtasks : s.subtasks[j].id = task_id => i <= j
    ELSE 0

\* A variant of the dependency check that accepts any dependency that has ended,
\* COMPLETED or not.
DependenciesEnded(s, task) ==
    \A k \in DOMAIN task.after :
        LET d == FindTaskById(s, task.after[k])
        IN d /= 0 /\ s.subtasks[d].status \in {COMPLETED, FAILED, SKIPPED}

\* The dependency check shared by get_ready_tasks and can_execute_task: every
\* entry of task.after names a task that is found and COMPLETED.
DependenciesSatisfied(s, task) ==
    \A k \in DOMAIN task.after :
        LET d == FindTaskById(s, task.after[k])
        IN d /= 0 /\ s.subtasks[d].status = COMPLETED

\* A variant of the test of get_ready_tasks that does not look at the after-list.
IsReadyTaskUnordered(s, i) == s.subtasks[i].status = PENDING

\* get_ready_tasks: whether it appends the task at position i.  A dependency is
\* never made COMPLETED inside the loop, so the test reads the state at the call.
IsReadyTask(s, i) ==
    /\ s.subtasks[i].status = PENDING
    /\ DependenciesSatisfied(s, s.subtasks[i])

\* get_ready_tasks: the script after the call (ready tasks are set READY) and
\* the ids of the tasks returned, in list order.
GetReadyTasks(s) ==
    LET idx == SelectSeq([i \in DOMAIN s.subtasks |-> i], LAMBDA i : IsReadyTask(s, i))
    IN [script |-> [s EXCEPT !.subtasks =
                        [i \in DOMAIN s.subtasks |->
                            IF IsReadyTask(s, i) THEN [s.subtasks[i] EXCEPT !.status = READY]
                            ELSE s.subtasks[i]]],
        ret |-> [k \in DOMAIN idx |-> s.subtasks[idx[k]].id]]

\* A variant of can_execute_task without the budget test.
CanExecuteTaskAnyBudget(s, task) ==
    IF task.retry_count >= task.retry_max THEN FALSE
    ELSE DependenciesSatisfied(s, task)

\* can_execute_task(script, task)
CanExecuteTask(s, task) ==
    IF s.total_cost + task.cost_estimate > s.budget_credits THEN FALSE
    ELSE IF task.retry_count >= task.retry_max THEN FALSE
    ELSE DependenciesSatisfied(s, task)

\* mark_task_completed
MarkTaskCompleted(s, task_id, result, actual_cost) ==
    LET i == FindTaskById(s, task_id)
    IN IF i = 0 THEN s
       ELSE [s EXCEPT !.subtasks[i].status = COMPLETED,
                      !.subtasks[i].actual_cost = actual_cost,
                      !.total_cost = @ + actual_cost]

\* A variant of mark_skipped that skips a dependent whatever its status, unless
\* it is SKIPPED already.
RECURSIVE MarkSkippedAnyStatus(_, _, _, _)
MarkSkippedAnyStatus(subtasks, failed_task_id, task_id, i) ==
    IF i > Len(subtasks) THEN subtasks
    ELSE IF /\ failed_task_id \in Range(subtasks[i].after)
            /\ subtasks[i].status /= SKIPPED
         THEN LET marked == [subtasks EXCEPT ![i].status = SKIPPED]
                  inner == MarkSkippedAnyStatus(marked, failed_task_id, subtasks[i].id, 1)
              IN MarkSkippedAnyStatus(inner, failed_task_id, task_id, i + 1)
         ELSE MarkSkippedAnyStatus(subtasks, failed_task_id, task_id, i + 1)

\* mark_skipped(task_id) of _mark_dependents_skipped, from position i of its
\* loop over script.subtasks: the test reads failed_task_id, the id the cascade
\* started from, and not the task_id the call was given.
RECURSIVE MarkSkipped(_, _, _, _)
MarkSkipped(subtasks, failed_task_id, task_id, i) ==
    IF i > Len(subtasks) THEN subtasks
    ELSE IF /\ failed_task_id \in Range(subtasks[i].after)
            /\ subtasks[i].status \in {PENDING, READY}
         THEN LET marked == [subtasks EXCEPT ![i].status = SKIPPED]
                  inner == MarkSkipped(marked, failed_task_id, subtasks[i].id, 1)
              IN MarkSkipped(inner, failed_task_id, task_id, i + 1)
         ELSE MarkSkipped(subtasks, failed_task_id, task_id, i + 1)

\* _mark_dependents_skipped
MarkDependentsSkipped(s, failed_task_id) ==
    [s EXCEPT !.subtasks = MarkSkipped(s.subtasks, failed_task_id, failed_task_id, 1)]

\* mark_task_failed
MarkTaskFailed(s, task_id, error, actual_cost) ==
    LET i == FindTaskById(s, task_id)
        counted == [s EXCEPT !.subtasks[i].retry_count = @ + 1,
                             !.subtasks[i].error_message = error,
                             !.subtasks[i].actual_cost = @ + actual_cost,
                             !.total_cost = @ + actual_cost]
    IN IF i = 0 THEN s
       ELSE IF counted.subtasks[i].retry_count >= counted.subtasks[i].retry_max
            THEN MarkDependentsSkipped([counted EXCEPT !.subtasks[i].status = FAILED], task_id)
            ELSE [counted EXCEPT !.subtasks[i].status = PENDING]

\* The graph's tasks with the list of the ids task.status = SKIPPED has been
\* executed for, in the order of execution.
Logged(subtasks, marked) == [subtasks |-> subtasks, marked |-> marked]

\* A variant of the logged cascade that assigns SKIPPED to a dependent at every
\* visit, whatever its status, and recurses from one that was PENDING or READY.
RECURSIVE MarkSkippedLoggedAnyVisit(_, _, _, _)
MarkSkippedLoggedAnyVisit(l, failed_task_id, task_id, i) ==
    IF i > Len(l.subtasks) THEN l
    ELSE IF failed_task_id \in Range(l.subtasks[i].after)
         THEN LET written == Logged([l.subtasks EXCEPT ![i].status = SKIPPED],
                                    Append(l.marked, l.subtasks[i].id))
              IN MarkSkippedLoggedAnyVisit(
                     IF l.subtasks[i].status \in {PENDING, READY}
                     THEN MarkSkippedLoggedAnyVisit(written, failed_task_id,
                                                    l.subtasks[i].id, 1)
                     ELSE written,
                     failed_task_id, task_id, i + 1)
         ELSE MarkSkippedLoggedAnyVisit(l, failed_task_id, task_id, i + 1)

\* mark_skipped(task_id) of _mark_dependents_skipped with the assignments it
\* makes, from position i of its loop.
RECURSIVE MarkSkippedLogged(_, _, _, _)
MarkSkippedLogged(l, failed_task_id, task_id, i) ==
    IF i > Len(l.subtasks) THEN l
    ELSE IF /\ failed_task_id \in Range(l.subtasks[i].after)
            /\ l.subtasks[i].status \in {PENDING, READY}
         THEN LET written == Logged([l.subtasks EXCEPT ![i].status = SKIPPED],
                                    Append(l.marked, l.subtasks[i].id))
              IN MarkSkippedLogged(
                     MarkSkippedLogged(written, failed_task_id, l.subtasks[i].id, 1),
                     failed_task_id, task_id, i + 1)
         ELSE MarkSkippedLogged(l, failed_task_id, task_id, i + 1)

(***************************************************************************)
(* Candidate graphs, as parse_beescript builds them from the generator's   *)
(* record: a well-formed graph over the first n task names with any        *)
(* dependency relation of at most MaxDeps entries; such a graph with at    *)
(* most MaxDefectDeps entries and one defect; and graphs without           *)
(* dependencies that have two defects.                                     *)
(***************************************************************************)
TaskNames == <<"A", "B", "C", "D", "E">>

RECURSIVE SortedSeq(_)
SortedSeq(S) ==
    IF S = {} THEN <<>>
    ELSE LET m == CHOOSE x \in S : \A y \in S : x <= y
         IN <<m>> \o SortedSeq(S \ {m})

AfterOf(E, i) ==
    LET js == SortedSeq({j \in 1..MaxTasks : <<i, j>> \in E})
    IN [k \in DOMAIN js |-> TaskNames[js[k]]]

BaseScript(n, E) ==
    BeeScript("g", n + 1,
              [i \in 1..n |-> BeeScriptTask(TaskNames[i], "travel", "find", AfterOf(E, i), 1, 1, 30)])

EdgeSets(n, m) == {E \in SUBSET ((1..n) \X (1..n)) : Cardinality(E) <= m}

DefectKinds ==
    {"task_id_empty", "duplicate_task_id", "agent_empty", "task_type_empty",
     "cost_estimate_zero", "retry_max_negative", "timeout_zero", "unknown_dependency",
     "cost_over_budget"}

Defects(n) ==
    {[kind |-> "none", i |-> 0], [kind |-> "goal_empty", i |-> 0],
     [kind |-> "goal_blank", i |-> 0], [kind |-> "budget_zero", i |-> 0]}
    \cup {[kind |-> k, i |-> i] : k \in DefectKinds, i \in 1..n}

WithDefect(s, d) ==
    LET t == s.subtasks[d.i]
        put(u) == [s EXCEPT !.subtasks[d.i] = u]
    IN CASE d.kind = "none" -> s
         [] d.kind = "goal_empty" -> [s EXCEPT !.goal = ""]
         [] d.kind = "goal_blank" -> [s EXCEPT !.goal = " "]
         [] d.kind = "budget_zero" -> [s EXCEPT !.budget_credits = 0]
         [] d.kind = "task_id_empty" -> put([t EXCEPT !.id = ""])
         [] d.kind = "duplicate_task_id" ->
                put([t EXCEPT !.id = TaskNames[IF d.i = 1 THEN Len(s.subtasks) ELSE 1]])
         [] d.kind = "agent_empty" -> put([t EXCEPT !.agent = ""])
         [] d.kind = "task_type_empty" -> put([t EXCEPT !.task = " "])
         [] d.kind = "cost_estimate_zero" -> put([t EXCEPT !.cost_estimate = 0])
         [] d.kind = "retry_max_negative" -> put([t EXCEPT !.retry_max = -1])
         [] d.kind = "timeout_zero" -> put([t EXCEPT !.timeout_seconds = 0])
         [] d.kind = "unknown_dependency" -> put([t EXCEPT !.after = Append(@, "X")])
         [] d.kind = "cost_over_budget" -> put([t EXCEPT !.cost_estimate = s.budget_credits])

\* script is one of the candidate graphs.
IsCandidate(s) ==
    \/ \E n \in 0..MaxTasks : \E E \in EdgeSets(n, MaxDeps) :
           s = BaseScript(n, E)
    \/ \E n \in 0..MaxTasks : \E E \in EdgeSets(n, MaxDefectDeps) : \E d \in Defects(n) :
           s = WithDefect(BaseScript(n, E), d)
    \/ \E n \in 1..MaxTasks : \E d1 \in Defects(n) : \E d2 \in Defects(n) :
           s = WithDefect(WithDefect(BaseScript(n, {}), d1), d2)

\* The router, the worker registry and the memory manager before anything used
\* them: empty directories, nothing registered, no session.
NoFiles == [f \in {} |-> None]

RouterUnused ==
    /\ queue = NoFiles
    /\ results = {}
    /\ WORKER_REGISTRY = NoFiles
    /\ workers_imported = {}

MemoryUnused ==
    /\ sessions = <<>>
    /\ storage = NoFiles
    /\ entries = <<>>

(***************************************************************************)
(* The planning specification: a candidate graph is validated and          *)
(* scheduled by one executor and its validator.                            *)
(***************************************************************************)
Call(name, arg, ret) == [name |-> name, arg |-> arg, ret |-> ret]

\* An empty dict.
NoAccounts == [sid \in {} |-> None]

InitPlan ==
    /\ IsCandidate(script)
    /\ errors = <<>>
    /\ warnings = <<>>
    /\ op = Call("init", None, None)
    /\ accounts = NoAccounts
    /\ transaction_counter = 0
    /\ frame = <<>>
    /\ now = 0
    /\ RouterUnused
    /\ MemoryUnused

\* validator.validate(script); the call is recorded with the error list the
\* validator held when it was made.
DoValidate ==
    LET r == ValidateCall(errors, warnings, script)
    IN /\ errors' = r.errors
       /\ warnings' = r.warnings
       /\ op' = Call("validate", errors, r.ok)
       /\ UNCHANGED <<script, accounts, transaction_counter, frame, now, router, memory>>

\* validator._validate_dependencies(script.subtasks): appends to the error list
\* it finds, which only validate clears.
DoValidateDependencies ==
    LET r == ValidateDependencies(script.subtasks)
    IN /\ Len(errors) <= MaxErrors
       /\ errors' = errors \o r.errs
       /\ op' = Call("_validate_dependencies", None, r)
       /\ UNCHANGED <<script, warnings, accounts, transaction_counter, frame, now, router, memory>>

\* executor.get_execution_order(script): validates with the executor's validator.
DoGetExecutionOrder ==
    LET v == ValidateCall(errors, warnings, script)
        r == GetExecutionOrder(script)
    IN /\ errors' = v.errors
       /\ warnings' = v.warnings
       /\ op' = Call("get_execution_order", None, r)
       /\ UNCHANGED <<script, accounts, transaction_counter, frame, now, router, memory>>

NextPlan == DoValidate \/ DoValidateDependencies \/ DoGetExecutionOrder

SpecPlan == InitPlan /\ [][NextPlan]_vars

(***************************************************************************)
(* The run specification: the executor's operations on an accepted graph.  *)
(* The operations carry no precondition on the status of the task they     *)
(* are given, so an outcome may be reported for any task id at any time.   *)
(***************************************************************************)
\* The after-lists of the graphs of a run: a chain A <- B <- C, a fork, a join,
\* three independent tasks, and a chain listed against its dependency order.
RunShapes ==
    { << <<>>, <<"A">>, <<"B">> >>,
      << <<>>, <<"A">>, <<"A">> >>,
      << <<>>, <<>>, <<"A", "B">> >>,
      << <<>>, <<>>, <<>> >>,
      << <<"C">>, <<>>, <<"B">> >> }

RunScript(shape, retry_max) ==
    BeeScript("g", RunBudget,
              [i \in DOMAIN shape |->
                  BeeScriptTask(TaskNames[i], "travel", "find", shape[i], 1, retry_max, 30)])

\* The task ids an operation may be given: those of the script and an unknown one.
TaskIdArgs == {script.subtasks[i].id : i \in DOMAIN script.subtasks} \cup {"X"}

Init ==
    /\ \E shape \in RunShapes, retry_max \in 0..MaxRetryMax :
           script = RunScript(shape, retry_max)
    /\ Validate(script).ok
    /\ errors = <<>>
    /\ warnings = <<>>
    /\ op = Call("init", None, None)
    /\ accounts = NoAccounts
    /\ transaction_counter = 0
    /\ frame = <<>>
    /\ now = 0
    /\ RouterUnused
    /\ MemoryUnused

DoGetReadyTasks ==
    LET r == GetReadyTasks(script)
    IN /\ script' = r.script
       /\ op' = Call("get_ready_tasks", None, r.ret)
       /\ UNCHANGED <<errors, warnings, accounts, transaction_counter, frame, now, router, memory>>

DoCanExecuteTask ==
    \E i \in DOMAIN script.subtasks :
        /\ op' = Call("can_execute_task", script.subtasks[i].id,
                      CanExecuteTask(script, script.subtasks[i]))
        /\ UNCHANGED <<script, errors, warnings, accounts, transaction_counter, frame, now, router, memory>>

DoMarkTaskCompleted ==
    \E task_id \in TaskIdArgs, actual_cost \in {0, MaxActualCost} :
        /\ script.total_cost + actual_cost <= MaxTotalCost
        /\ script' = MarkTaskCompleted(script, task_id, "result", actual_cost)
        /\ op' = Call("mark_task_completed", task_id, None)
        /\ UNCHANGED <<errors, warnings, accounts, transaction_counter, frame, now, router, memory>>

DoMarkTaskFailed ==
    \E task_id \in TaskIdArgs, actual_cost \in {0, MaxActualCost} :
        /\ script.total_cost + actual_cost <= MaxTotalCost
        /\ LET i == FindTaskById(script, task_id)
           IN i /= 0 => script.subtasks[i].retry_count < MaxRetryCount
        /\ script' = MarkTaskFailed(script, task_id, "error", actual_cost)
        /\ op' = Call("mark_task_failed", task_id, None)
        /\ UNCHANGED <<errors, warnings, accounts, transaction_counter, frame, now, router, memory>>

Next == DoGetReadyTasks \/ DoCanExecuteTask \/ DoMarkTaskCompleted \/ DoMarkTaskFailed

Spec == Init /\ [][Next]_vars

(***************************************************************************)
(* CreditManager, credits.py.  A manager is its accounts and its           *)
(* transaction counter; an operation yields the manager after the call     *)
(* and what the call returned or raised ("True", "False", "ValueError").   *)
(***************************************************************************)
SessionIds == {"s1"}

TASK_EXECUTION == "task_execution"
REFUND == "refund"

CreditTransaction(transaction_id, transaction_type, amount) ==
    [transaction_id |-> transaction_id, transaction_type |-> transaction_type,
     amount |-> amount]

CreditAccount(initial_budget) ==
    [initial_budget |-> initial_budget, current_balance |-> initial_budget,
     total_spent |-> 0, transactions |-> <<>>]

Manager(accts, counter) == [accounts |-> accts, transaction_counter |-> counter]

\* get_account(session_id) is not None
HasAccount(m, session_id) == session_id \in DOMAIN m.accounts

\* create_account
CreateAccount(m, session_id, initial_budget) ==
    IF initial_budget <= 0 THEN [m |-> m, ret |-> "ValueError"]
    ELSE [m |-> [m EXCEPT !.accounts =
                    [sid \in DOMAIN m.accounts \cup {session_id} |->
                        IF sid = session_id THEN CreditAccount(initial_budget)
                        ELSE m.accounts[sid]]],
          ret |-> "account"]

\* A variant of charge_credits that numbers its transaction without advancing
\* the manager's counter.
ChargeCreditsCounterKept(m, session_id, amount, transaction_type) ==
    LET account == m.accounts[session_id]
    IN IF ~HasAccount(m, session_id) THEN [m |-> m, ret |-> "False"]
       ELSE IF amount <= 0 THEN [m |-> m, ret |-> "ValueError"]
       ELSE IF account.current_balance < amount THEN [m |-> m, ret |-> "False"]
       ELSE [m |-> [m EXCEPT
                      !.accounts[session_id].current_balance = @ - amount,
                      !.accounts[session_id].total_spent = @ + amount,
                      !.accounts[session_id].transactions =
                          Append(@, CreditTransaction(m.transaction_counter + 1,
                                                      transaction_type, amount))],
             ret |-> "True"]

\* A variant of charge_credits that clamps an overspend to the remaining balance.
ChargeCreditsClamped(m, session_id, amount, transaction_type) ==
    LET account == m.accounts[session_id]
        charged == IF account.current_balance < amount THEN account.current_balance
                   ELSE amount
    IN IF ~HasAccount(m, session_id) THEN [m |-> m, ret |-> "False"]
       ELSE IF amount <= 0 THEN [m |-> m, ret |-> "ValueError"]
       ELSE IF charged = 0 THEN [m |-> m, ret |-> "False"]
       ELSE [m |-> [m EXCEPT
                      !.transaction_counter = @ + 1,
                      !.accounts[session_id].current_balance = @ - charged,
                      !.accounts[session_id].total_spent = @ + charged,
                      !.accounts[session_id].transactions =
                          Append(@, CreditTransaction(m.transaction_counter + 1,
                                                      transaction_type, charged))],
             ret |-> "True"]

\* A variant of charge_credits that leaves total_spent as it was.
ChargeCreditsSpentKept(m, session_id, amount, transaction_type) ==
    LET account == m.accounts[session_id]
    IN IF ~HasAccount(m, session_id) THEN [m |-> m, ret |-> "False"]
       ELSE IF amount <= 0 THEN [m |-> m, ret |-> "ValueError"]
       ELSE IF account.current_balance < amount THEN [m |-> m, ret |-> "False"]
       ELSE [m |-> [m EXCEPT
                      !.transaction_counter = @ + 1,
                      !.accounts[session_id].current_balance = @ - amount,
                      !.accounts[session_id].transactions =
                          Append(@, CreditTransaction(m.transaction_counter + 1,
                                                      transaction_type, amount))],
             ret |-> "True"]

\* charge_credits
ChargeCredits(m, session_id, amount, transaction_type) ==
    LET account == m.accounts[session_id]
    IN IF ~HasAccount(m, session_id) THEN [m |-> m, ret |-> "False"]
       ELSE IF amount <= 0 THEN [m |-> m, ret |-> "ValueError"]
       ELSE IF account.current_balance < amount THEN [m |-> m, ret |-> "False"]
       ELSE [m |-> [m EXCEPT
                      !.transaction_counter = @ + 1,
                      !.accounts[session_id].current_balance = @ - amount,
                      !.accounts[session_id].total_spent = @ + amount,
                      !.accounts[session_id].transactions =
                          Append(@, CreditTransaction(m.transaction_counter + 1,
                                                      transaction_type, amount))],
             ret |-> "True"]

\* A variant of the refund amount capped at the account's budget instead.
RefundAmountBudgetCapped(account, amount) ==
    IF amount <= account.initial_budget THEN amount ELSE account.initial_budget

\* A variant of the refund amount without the cap at total_spent.
RefundAmountUncapped(account, amount) == amount

\* refund_amount = min(amount, account.total_spent)
RefundAmount(account, amount) ==
    IF amount <= account.total_spent THEN amount ELSE account.total_spent

\* refund_credits
RefundCredits(m, session_id, amount) ==
    LET account == m.accounts[session_id]
        refund_amount == RefundAmount(account, amount)
    IN IF ~HasAccount(m, session_id) THEN [m |-> m, ret |-> "False"]
       ELSE IF amount <= 0 THEN [m |-> m, ret |-> "ValueError"]
       ELSE IF refund_amount <= 0 THEN [m |-> m, ret |-> "False"]
       ELSE [m |-> [m EXCEPT
                      !.transaction_counter = @ + 1,
                      !.accounts[session_id].current_balance = @ + refund_amount,
                      !.accounts[session_id].total_spent = @ - refund_amount,
                      !.accounts[session_id].transactions =
                          Append(@, CreditTransaction(m.transaction_counter + 1,
                                                      REFUND, -refund_amount))],
             ret |-> "True"]

\* A variant of estimate_retry_cost that multiplies by 1.5 and rounds down once
\* for every retry.
RECURSIVE EstimateRetryCostStepwise(_, _)
EstimateRetryCostStepwise(base_cost, retry_count) ==
    IF retry_count = 0 THEN base_cost
    ELSE (EstimateRetryCostStepwise(base_cost, retry_count - 1) * 3) \div 2

\* estimate_retry_cost: int(base_cost * 1.5 ** retry_count).  1.5 ** n is
\* 3^n / 2^n exactly, and int() of a non-negative value rounds down.
EstimateRetryCost(base_cost, retry_count) ==
    (base_cost * 3^retry_count) \div 2^retry_count

(***************************************************************************)
(* The ledger specification: one manager, its operations called one after  *)
(* the other.                                                              *)
(***************************************************************************)
InitLedger ==
    /\ script = BeeScript("g", 1, <<>>)
    /\ errors = <<>>
    /\ warnings = <<>>
    /\ op = Call("init", None, None)
    /\ accounts = NoAccounts
    /\ transaction_counter = 0
    /\ frame = <<>>
    /\ now = 0
    /\ RouterUnused
    /\ MemoryUnused

LedgerArg(session_id, amount) == [session_id |-> session_id, amount |-> amount]

DoCreateAccount ==
    \E session_id \in SessionIds, initial_budget \in 0..MaxBudget :
        LET r == CreateAccount(Manager(accounts, transaction_counter), session_id, initial_budget)
        IN /\ accounts' = r.m.accounts
           /\ transaction_counter' = r.m.transaction_counter
           /\ op' = Call("create_account", LedgerArg(session_id, initial_budget), r.ret)
           /\ UNCHANGED <<script, errors, warnings, frame, now, router, memory>>

DoChargeCredits ==
    \E session_id \in SessionIds, amount \in -1..MaxAmount :
        LET r == ChargeCredits(Manager(accounts, transaction_counter), session_id, amount,
                               TASK_EXECUTION)
        IN /\ transaction_counter < MaxTransactions
           /\ accounts' = r.m.accounts
           /\ transaction_counter' = r.m.transaction_counter
           /\ op' = Call("charge_credits", LedgerArg(session_id, amount), r.ret)
           /\ UNCHANGED <<script, errors, warnings, frame, now, router, memory>>

DoRefundCredits ==
    \E session_id \in SessionIds, amount \in -1..MaxAmount :
        LET r == RefundCredits(Manager(accounts, transaction_counter), session_id, amount)
        IN /\ transaction_counter < MaxTransactions
           /\ accounts' = r.m.accounts
           /\ transaction_counter' = r.m.transaction_counter
           /\ op' = Call("refund_credits", LedgerArg(session_id, amount), r.ret)
           /\ UNCHANGED <<script, errors, warnings, frame, now, router, memory>>

NextLedger == DoCreateAccount \/ DoChargeCredits \/ DoRefundCredits

SpecLedger == InitLedger /\ [][NextLedger]_vars

(***************************************************************************)
(* The concurrent specification: two callers charge the same account at    *)
(* the same time, as two tasks of one batch would.  charge_credits takes   *)
(* no lock, so the callers interleave between its statements; each         *)
(* statement is one step.                                                  *)
(***************************************************************************)
Callers == {"t1", "t2"}

Frame(at, amount, transaction, ret) ==
    [at |-> at, amount |-> amount, transaction |-> transaction, ret |-> ret]

InitConc ==
    /\ script = BeeScript("g", 1, <<>>)
    /\ errors = <<>>
    /\ warnings = <<>>
    /\ op = Call("init", None, None)
    /\ \E initial_budget \in 1..MaxBudget :
           accounts = [sid \in SessionIds |-> CreditAccount(initial_budget)]
    /\ transaction_counter = 0
    /\ frame \in [Callers -> {Frame("call", amount, None, None) : amount \in 1..MaxAmount}]
    /\ now = 0
    /\ RouterUnused
    /\ MemoryUnused

ConcUnchanged == UNCHANGED <<script, errors, warnings, op, now, router, memory>>

\* credits.py:87-95: the account lookup, the amount check and the balance check.
ChargeCheck(t) ==
    /\ frame[t].at = "call"
    /\ frame' = [frame EXCEPT ![t] =
                    IF accounts["s1"].current_balance < frame[t].amount
                    THEN [@ EXCEPT !.at = "done", !.ret = "False"]
                    ELSE [@ EXCEPT !.at = "transaction"]]
    /\ UNCHANGED <<accounts, transaction_counter>>
    /\ ConcUnchanged

\* credits.py:98-108: the counter is incremented and the transaction is built.
ChargeTransaction(t) ==
    /\ frame[t].at = "transaction"
    /\ transaction_counter' = transaction_counter + 1
    /\ frame' = [frame EXCEPT ![t].at = "balance",
                              ![t].transaction =
                                  CreditTransaction(transaction_counter + 1, TASK_EXECUTION,
                                                    frame[t].amount)]
    /\ UNCHANGED accounts
    /\ ConcUnchanged

\* credits.py:111: account.current_balance -= amount
ChargeBalance(t) ==
    /\ frame[t].at = "balance"
    /\ accounts' = [accounts EXCEPT !["s1"].current_balance = @ - frame[t].amount]
    /\ frame' = [frame EXCEPT ![t].at = "spent"]
    /\ UNCHANGED transaction_counter
    /\ ConcUnchanged

\* credits.py:112: account.total_spent += amount
ChargeSpent(t) ==
    /\ frame[t].at = "spent"
    /\ accounts' = [accounts EXCEPT !["s1"].total_spent = @ + frame[t].amount]
    /\ frame' = [frame EXCEPT ![t].at = "append"]
    /\ UNCHANGED transaction_counter
    /\ ConcUnchanged

\* credits.py:113-116: the transaction is appended and True is returned.
ChargeAppend(t) ==
    /\ frame[t].at = "append"
    /\ accounts' = [accounts EXCEPT !["s1"].transactions = Append(@, frame[t].transaction)]
    /\ frame' = [frame EXCEPT ![t].at = "done", ![t].ret = "True"]
    /\ UNCHANGED transaction_counter
    /\ ConcUnchanged

NextConc ==
    \E t \in Callers :
        \/ ChargeCheck(t)
        \/ ChargeTransaction(t)
        \/ ChargeBalance(t)
        \/ ChargeSpent(t)
        \/ ChargeAppend(t)

SpecConc == InitConc /\ [][NextConc]_vars

(***************************************************************************)
(* The two-account specification: one manager serves two sessions; the     *)
(* accounts are opened with two credits, or asked for with none, and the   *)
(* calls charge and refund small amounts, in any order.                    *)
(***************************************************************************)
TwoSessionIds == {"s1", "s2"}

TwoCreateAccount ==
    \E session_id \in TwoSessionIds, initial_budget \in {0, 2} :
        LET r == CreateAccount(Manager(accounts, transaction_counter), session_id, initial_budget)
        IN /\ accounts' = r.m.accounts
           /\ transaction_counter' = r.m.transaction_counter
           /\ op' = Call("create_account", LedgerArg(session_id, initial_budget), r.ret)
           /\ UNCHANGED <<script, errors, warnings, frame, now, router, memory>>

TwoChargeCredits ==
    \E session_id \in TwoSessionIds, amount \in 0..2 :
        LET r == ChargeCredits(Manager(accounts, transaction_counter), session_id, amount,
                               TASK_EXECUTION)
        IN /\ transaction_counter < MaxTransactions
           /\ accounts' = r.m.accounts
           /\ transaction_counter' = r.m.transaction_counter
           /\ op' = Call("charge_credits", LedgerArg(session_id, amount), r.ret)
           /\ UNCHANGED <<script, errors, warnings, frame, now, router, memory>>

TwoRefundCredits ==
    \E session_id \in TwoSessionIds, amount \in 0..2 :
        LET r == RefundCredits(Manager(accounts, transaction_counter), session_id, amount)
        IN /\ transaction_counter < MaxTransactions
           /\ accounts' = r.m.accounts
           /\ transaction_counter' = r.m.transaction_counter
           /\ op' = Call("refund_credits", LedgerArg(session_id, amount), r.ret)
           /\ UNCHANGED <<script, errors, warnings, frame, now, router, memory>>

NextTwoAccounts == TwoCreateAccount \/ TwoChargeCredits \/ TwoRefundCredits

SpecTwoAccounts == InitLedger /\ [][NextTwoAccounts]_vars

(***************************************************************************)
(* The driven run: an accepted graph is run the way the operations are     *)
(* meant to be used together.  get_ready_tasks hands tasks out; an         *)
(* outcome, success or failure, is reported only for a task that was       *)
(* handed out (READY), at its estimated cost; the session's account,       *)
(* opened with the graph's budget, is charged as attempts are paid for;    *)
(* the clock advances.  The executor's operations take neither the         *)
(* account nor the time as an argument and read neither.                   *)
(***************************************************************************)
RunTimeout == 1      \* timeout_minutes of the graphs of a driven run

InitRun ==
    /\ \E shape \in RunShapes, retry_max \in 0..MaxRetryMax :
           script = [RunScript(shape, retry_max) EXCEPT !.timeout_minutes = RunTimeout]
    /\ Validate(script).ok
    /\ errors = <<>>
    /\ warnings = <<>>
    /\ op = Call("init", None, None)
    /\ accounts = [sid \in SessionIds |-> CreditAccount(script.budget_credits)]
    /\ transaction_counter = 0
    /\ frame = <<>>
    /\ now = 0
    /\ RouterUnused
    /\ MemoryUnused

\* executor.get_ready_tasks(script)
RunGetReadyTasks ==
    LET r == GetReadyTasks(script)
    IN /\ script' = r.script
       /\ op' = Call("get_ready_tasks", None, r.ret)
       /\ UNCHANGED <<errors, warnings, accounts, transaction_counter, frame, now, router, memory>>

\* A handed-out task succeeds: executor.mark_task_completed(script, id, result, cost)
RunTaskSucceeded ==
    \E i \in DOMAIN script.subtasks :
        LET actual_cost == script.subtasks[i].cost_estimate
        IN  /\ script.subtasks[i].status = READY
            /\ script' = MarkTaskCompleted(script, script.subtasks[i].id, "result", actual_cost)
            /\ op' = Call("mark_task_completed", script.subtasks[i].id, None)
            /\ UNCHANGED <<errors, warnings, accounts, transaction_counter, frame, now, router, memory>>

\* A handed-out task fails: executor.mark_task_failed(script, id, error, cost)
RunTaskFailed ==
    \E i \in DOMAIN script.subtasks :
        LET actual_cost == script.subtasks[i].cost_estimate
        IN  /\ script.subtasks[i].status = READY
            /\ script' = MarkTaskFailed(script, script.subtasks[i].id, "error", actual_cost)
            /\ op' = Call("mark_task_failed", script.subtasks[i].id, None)
            /\ UNCHANGED <<errors, warnings, accounts, transaction_counter, frame, now, router, memory>>

\* An attempt of a task is paid for:
\* manager.charge_credits(session, task.cost_estimate, TASK_EXECUTION, ...)
RunChargeCredits ==
    \E session_id \in SessionIds, i \in DOMAIN script.subtasks :
        LET amount == script.subtasks[i].cost_estimate
            r == ChargeCredits(Manager(accounts, transaction_counter), session_id, amount,
                               TASK_EXECUTION)
        IN /\ transaction_counter < MaxTransactions
           /\ accounts' = r.m.accounts
           /\ transaction_counter' = r.m.transaction_counter
           /\ op' = Call("charge_credits", LedgerArg(session_id, amount), r.ret)
           /\ UNCHANGED <<script, errors, warnings, frame, now, router, memory>>

\* A minute passes; the clock is followed until the timeout has elapsed.
Tick ==
    /\ now < script.timeout_minutes
    /\ now' = now + 1
    /\ UNCHANGED <<script, errors, warnings, op, accounts, transaction_counter, frame,
                   router, memory>>

NextRun ==
    \/ RunGetReadyTasks
    \/ RunTaskSucceeded
    \/ RunTaskFailed
    \/ RunChargeCredits
    \/ Tick

SpecRun == InitRun /\ [][NextRun]_vars

(***************************************************************************)
(* Queen, queen.py: generate_beescript and its repair pass.  The           *)
(* generator's responses are the candidate graphs, as parsed; a candidate  *)
(* carries no params, so estimate_task_cost sees an empty dict.            *)
(***************************************************************************)
MaxAttempts == 2     \* max_retries of a generate_beescript call

\* estimate_task_cost(agent, task_type, {}): max(int(base_cost * multiplier), 1),
\* the multipliers in tenths.
EstimateTaskCost(agent, task_type) ==
    LET base_cost == CASE agent = "travel" -> 15
                       [] agent = "finance" -> 12
                       [] agent = "compiler" -> 8
                       [] agent = "queen" -> 25
                       [] OTHER -> 10
        multiplier == CASE task_type = "find_flights" -> 15
                        [] task_type = "find_hotels" -> 13
                        [] task_type = "calculate_trip_cost" -> 12
                        [] task_type = "travel_planning" -> 20
                        [] task_type = "compile_results" -> 11
                        [] OTHER -> 10
        estimated_cost == (base_cost * multiplier) \div 10
    IN IF estimated_cost >= 1 THEN estimated_cost ELSE 1

\* queen.py:108-110: a task left at the default estimate 10 gets an estimate.
AddCostEstimates(s) ==
    [s EXCEPT !.subtasks =
        [i \in DOMAIN s.subtasks |->
            IF s.subtasks[i].cost_estimate = 10
            THEN [s.subtasks[i] EXCEPT
                     !.cost_estimate = EstimateTaskCost(s.subtasks[i].agent, s.subtasks[i].task)]
            ELSE s.subtasks[i]]]

\* f"task-{uuid.uuid4().hex[:8]}" for the task at position i: an id no task of
\* the graph has and no other position is given.
FreshIds == <<"task-1", "task-2", "task-3", "task-4", "task-5">>

\* queen.py:142-146: an empty id (`not task.id`) or one already used is replaced.
RECURSIVE RepairIds(_, _, _)
RepairIds(subtasks, i, used_ids) ==
    IF i > Len(subtasks) THEN subtasks
    ELSE LET id == IF subtasks[i].id = "" \/ subtasks[i].id \in used_ids
                   THEN FreshIds[i] ELSE subtasks[i].id
         IN RepairIds([subtasks EXCEPT ![i].id = id], i + 1, used_ids \cup {id})

\* queen.py:149-151: entries of after that name no task are dropped.
RepairDependencies(subtasks) ==
    LET valid_ids == {subtasks[i].id : i \in DOMAIN subtasks}
    IN [i \in DOMAIN subtasks |->
           [subtasks[i] EXCEPT !.after = SelectSeq(@, LAMBDA dep : dep \in valid_ids)]]

\* queen.py:154-159: estimates over the budget are scaled by
\* (budget_credits * 0.9) / total_estimated and truncated, at least 1 each.
\* The estimates and the budget of a candidate are not negative, so int()
\* rounds down.
RepairBudget(s) ==
    LET total_estimated == TotalEstimatedCost(s)
        scaled(cost) == (cost * 9 * s.budget_credits) \div (10 * total_estimated)
    IN IF total_estimated > s.budget_credits
       THEN [s EXCEPT !.subtasks =
                [i \in DOMAIN s.subtasks |->
                    [s.subtasks[i] EXCEPT !.cost_estimate =
                        IF scaled(@) >= 1 THEN scaled(@) ELSE 1]]]
       ELSE s

\* queen.py:162-165: max(1, cost_estimate), max(0, retry_max), max(10, timeout_seconds)
RepairValues(subtasks) ==
    [i \in DOMAIN subtasks |->
        [subtasks[i] EXCEPT !.cost_estimate = IF @ >= 1 THEN @ ELSE 1,
                            !.retry_max = IF @ >= 0 THEN @ ELSE 0,
                            !.timeout_seconds = IF @ >= 10 THEN @ ELSE 10]]

\* _attempt_script_repair
AttemptScriptRepair(s) ==
    LET ids == [s EXCEPT !.subtasks = RepairDependencies(RepairIds(s.subtasks, 1, {}))]
        budget == RepairBudget(ids)
    IN [budget EXCEPT !.subtasks = RepairValues(budget.subtasks)]

(***************************************************************************)
(* The generation specification: one generate_beescript call.  script is   *)
(* the graph parsed from the response of the current attempt, and after    *)
(* the call the graph the call last worked on; op.arg is the position of   *)
(* the call and op.ret its outcome so far.                                 *)
(***************************************************************************)
\* parse_beescript of a response: a candidate graph as it is, with the
\* estimates left out (each parsed to the default 10), or written for a
\* budget of one credit.
ResponseVariants == {"as_written", "default_estimates", "budget_one"}

ParseResponse(c, variant) ==
    CASE variant = "as_written" -> c
      [] variant = "default_estimates" ->
             [c EXCEPT !.subtasks =
                 [i \in DOMAIN c.subtasks |->
                     [c.subtasks[i] EXCEPT !.cost_estimate = IF @ = 1 THEN 10 ELSE @]]]
      [] variant = "budget_one" -> [c EXCEPT !.budget_credits = 1]

\* script when the response of the attempt was not JSON
NoScript == BeeScript("", 0, <<>>)

Attempt(attempt, max_retries, parsed, repaired, rescaled) ==
    [attempt |-> attempt, max_retries |-> max_retries, parsed |-> parsed,
     repaired |-> repaired, rescaled |-> rescaled]

InitQueen ==
    /\ \E max_retries \in 0..MaxAttempts :
           \/ /\ \E variant \in ResponseVariants :
                     \/ \E n \in 0..MaxTasks : \E E \in EdgeSets(n, MaxDeps) :
                            script = ParseResponse(BaseScript(n, E), variant)
                     \/ \E n \in 0..MaxTasks : \E E \in EdgeSets(n, MaxDefectDeps) :
                        \E d \in Defects(n) :
                            script = ParseResponse(WithDefect(BaseScript(n, E), d), variant)
                     \/ \E n \in 1..MaxTasks : \E d1 \in Defects(n) : \E d2 \in Defects(n) :
                            script = ParseResponse(
                                         WithDefect(WithDefect(BaseScript(n, {}), d1), d2), variant)
              /\ op = Call("generate_beescript",
                           Attempt(0, max_retries, TRUE, FALSE, FALSE), "response")
           \/ /\ script = NoScript
              /\ op = Call("generate_beescript",
                           Attempt(0, max_retries, FALSE, FALSE, FALSE), "response")
    /\ errors = <<>>
    /\ warnings = <<>>
    /\ accounts = NoAccounts
    /\ transaction_counter = 0
    /\ frame = <<>>
    /\ now = 0
    /\ RouterUnused
    /\ MemoryUnused

\* The next attempt of the loop: the generator answers again, with the same
\* graph, with a one-task graph, or with text that is not JSON.
NextAttempt ==
    /\ \/ /\ script' \in {script, BaseScript(1, {})}
          /\ script' /= NoScript
          /\ op' = Call("generate_beescript",
                        Attempt(op.arg.attempt + 1, op.arg.max_retries, TRUE, FALSE, FALSE),
                        "response")
       \/ /\ script' = NoScript
          /\ op' = Call("generate_beescript",
                        Attempt(op.arg.attempt + 1, op.arg.max_retries, FALSE, FALSE, FALSE),
                        "response")

InLoop == op.ret = "response" /\ op.arg.attempt < op.arg.max_retries
LastAttempt == op.arg.attempt = op.arg.max_retries - 1

\* queen.py:137: the loop ended without a return
QueenExhausted ==
    /\ op.ret = "response" /\ op.arg.attempt >= op.arg.max_retries
    /\ op' = [op EXCEPT !.ret = "ValueError"]
    /\ UNCHANGED <<script, errors, warnings, accounts, transaction_counter, frame, now, router, memory>>

\* queen.py:127-130: json.JSONDecodeError before the last attempt
QueenDecodeErrorRetry ==
    /\ InLoop /\ ~op.arg.parsed /\ ~LastAttempt
    /\ NextAttempt
    /\ UNCHANGED <<errors, warnings, accounts, transaction_counter, frame, now, router, memory>>

\* queen.py:127-130: json.JSONDecodeError at the last attempt
QueenDecodeErrorRaise ==
    /\ InLoop /\ ~op.arg.parsed /\ LastAttempt
    /\ op' = [op EXCEPT !.ret = "ValueError"]
    /\ UNCHANGED <<script, errors, warnings, accounts, transaction_counter, frame, now, router, memory>>

\* queen.py:108-115: the estimated graph validates and is returned
QueenReturn ==
    LET estimated == AddCostEstimates(script)
        v == ValidateCall(errors, warnings, estimated)
    IN /\ InLoop /\ op.arg.parsed
       /\ v.ok
       /\ script' = estimated
       /\ errors' = v.errors
       /\ warnings' = v.warnings
       /\ op' = [op EXCEPT !.ret = "script"]
       /\ UNCHANGED <<accounts, transaction_counter, frame, now, router, memory>>

\* queen.py:116-118: validation failed before the last attempt
QueenRetry ==
    LET estimated == AddCostEstimates(script)
        v == ValidateCall(errors, warnings, estimated)
    IN /\ InLoop /\ op.arg.parsed /\ ~LastAttempt
       /\ ~v.ok
       /\ NextAttempt
       /\ errors' = v.errors
       /\ warnings' = v.warnings
       /\ UNCHANGED <<accounts, transaction_counter, frame, now, router, memory>>

\* queen.py:118-123: validation failed at the last attempt, the repaired graph
\* validates and is returned
QueenRepairReturn ==
    LET estimated == AddCostEstimates(script)
        v == ValidateCall(errors, warnings, estimated)
        repaired == AttemptScriptRepair(estimated)
        w == ValidateCall(v.errors, v.warnings, repaired)
    IN /\ InLoop /\ op.arg.parsed /\ LastAttempt
       /\ ~v.ok
       /\ w.ok
       /\ script' = repaired
       /\ errors' = w.errors
       /\ warnings' = w.warnings
       /\ op' = Call("generate_beescript",
                     Attempt(op.arg.attempt, op.arg.max_retries, TRUE, TRUE,
                             TotalEstimatedCost(estimated) > estimated.budget_credits),
                     "script")
       /\ UNCHANGED <<accounts, transaction_counter, frame, now, router, memory>>

\* queen.py:118-125, 132-135: validation failed at the last attempt and the
\* repaired graph does not validate either: ValueError, raised again by the
\* handler of the last attempt
QueenRepairRaise ==
    LET estimated == AddCostEstimates(script)
        v == ValidateCall(errors, warnings, estimated)
        repaired == AttemptScriptRepair(estimated)
        w == ValidateCall(v.errors, v.warnings, repaired)
    IN /\ InLoop /\ op.arg.parsed /\ LastAttempt
       /\ ~v.ok
       /\ ~w.ok
       /\ script' = repaired
       /\ errors' = w.errors
       /\ warnings' = w.warnings
       /\ op' = Call("generate_beescript",
                     Attempt(op.arg.attempt, op.arg.max_retries, TRUE, TRUE,
                             TotalEstimatedCost(estimated) > estimated.budget_credits),
                     "ValueError")
       /\ UNCHANGED <<accounts, transaction_counter, frame, now, router, memory>>

NextQueen ==
    \/ QueenExhausted
    \/ QueenDecodeErrorRetry
    \/ QueenDecodeErrorRaise
    \/ QueenReturn
    \/ QueenRetry
    \/ QueenRepairReturn
    \/ QueenRepairRaise

SpecQueen == InitQueen /\ [][NextQueen]_vars

(***************************************************************************)
(* The worker registry, base_worker.py.  A class is named by its name; an  *)
(* operation yields the registry after the call and what the call          *)
(* returned or raised.                                                     *)
(***************************************************************************)
\* The names workers are registered under and asked for, and the classes.
WorkerNames == {"travel", "finance", "custom"}
WorkerClasses == {"TravelWorker", "FinanceWorker", "DuplicateWorker"}

\* The modules `from . import workers` imports, in order, and the class each
\* of them registers under its name (workers/travel.py:9, workers/finance.py:9).
WorkerModules == <<"travel", "finance">>
ClassOfModule(module) == IF module = "travel" THEN "TravelWorker" ELSE "FinanceWorker"

\* A variant of register_worker that replaces the class of a name in use.
RegisterWorkerReplacing(registry, name, cls) ==
    [registry |-> [n \in DOMAIN registry \cup {name} |->
                      IF n = name THEN cls ELSE registry[n]],
     ret |-> cls]

\* register_worker(name)(cls)
RegisterWorker(registry, name, cls) ==
    IF name \in DOMAIN registry
    THEN [registry |-> registry, ret |-> "ValueError"]
    ELSE [registry |-> [n \in DOMAIN registry \cup {name} |->
                           IF n = name THEN cls ELSE registry[n]],
          ret |-> cls]

\* _import_workers, from module i of the package on: a module imported before
\* is not run again; a module whose registration raises is not imported and
\* ends the import with that ValueError, which is not an ImportError.
RECURSIVE ImportWorkersFrom(_, _, _)
ImportWorkersFrom(registry, imported, i) ==
    IF i > Len(WorkerModules)
    THEN [registry |-> registry, imported |-> imported, ret |-> None]
    ELSE IF WorkerModules[i] \in imported
         THEN ImportWorkersFrom(registry, imported, i + 1)
         ELSE LET r == RegisterWorker(registry, WorkerModules[i],
                                      ClassOfModule(WorkerModules[i]))
              IN IF r.ret = "ValueError"
                 THEN [registry |-> registry, imported |-> imported, ret |-> "ValueError"]
                 ELSE ImportWorkersFrom(r.registry, imported \cup {WorkerModules[i]}, i + 1)

ImportWorkers(registry, imported) == ImportWorkersFrom(registry, imported, 1)

\* get_worker_class(worker_name)
GetWorkerClass(registry, imported, worker_name) ==
    LET w == ImportWorkers(registry, imported)
    IN IF w.ret = "ValueError" THEN w
       ELSE IF worker_name \notin DOMAIN w.registry
            THEN [registry |-> w.registry, imported |-> w.imported, ret |-> "KeyError"]
            ELSE [registry |-> w.registry, imported |-> w.imported,
                  ret |-> w.registry[worker_name]]

(***************************************************************************)
(* The registry specification: classes are registered and looked up in     *)
(* any order.  A call is recorded with the registry it found.              *)
(***************************************************************************)
RegistryArg(name, cls, registry) == [name |-> name, cls |-> cls, registry |-> registry]

InitRegistry ==
    /\ script = BeeScript("g", 1, <<>>)
    /\ errors = <<>>
    /\ warnings = <<>>
    /\ op = Call("init", RegistryArg(None, None, NoFiles), None)
    /\ accounts = NoAccounts
    /\ transaction_counter = 0
    /\ frame = <<>>
    /\ now = 0
    /\ RouterUnused
    /\ MemoryUnused

DoRegisterWorker ==
    \E name \in WorkerNames, cls \in WorkerClasses :
        LET r == RegisterWorker(WORKER_REGISTRY, name, cls)
        IN /\ WORKER_REGISTRY' = r.registry
           /\ op' = Call("register_worker", RegistryArg(name, cls, WORKER_REGISTRY), r.ret)
           /\ UNCHANGED <<script, errors, warnings, accounts, transaction_counter, frame, now,
                          queue, results, workers_imported, memory>>

DoGetWorkerClass ==
    \E worker_name \in WorkerNames :
        LET r == GetWorkerClass(WORKER_REGISTRY, workers_imported, worker_name)
        IN /\ WORKER_REGISTRY' = r.registry
           /\ workers_imported' = r.imported
           /\ op' = Call("get_worker_class", RegistryArg(worker_name, None, WORKER_REGISTRY),
                         r.ret)
           /\ UNCHANGED <<script, errors, warnings, accounts, transaction_counter, frame, now,
                          queue, results, memory>>

NextRegistry == DoRegisterWorker \/ DoGetWorkerClass

SpecRegistry == InitRegistry /\ [][NextRegistry]_vars

(***************************************************************************)
(* Router, router.py, with BaseWorker.process_task_file.  A task file is   *)
(* the dict it holds, with None for a key that is absent, or text that is  *)
(* not JSON; an exception is named by its class.                           *)
(***************************************************************************)
DONE == "DONE"
ERROR == "ERROR"

\* models.TaskStatus
QueueStatus == {PENDING, IN_PROGRESS, DONE, ERROR}

TaskFile(id, status, worker) == [valid |-> TRUE, id |-> id, status |-> status, worker |-> worker]
Malformed == [valid |-> FALSE, id |-> None, status |-> None, worker |-> None]

\* The ids of the tasks that are dispatched, and the worker names they carry.
QueueTaskIds == {"t1", "t2"}
QueueWorkers == {"travel", "ghost"}

\* A file put into the queue directory by hand: text that is not JSON, or a
\* dict without id, without status or without worker.
ForeignFile == "x"
ForeignContents ==
    {Malformed,
     TaskFile(None, None, "travel"),
     TaskFile(None, PENDING, "travel"),
     TaskFile(ForeignFile, None, "travel"),
     TaskFile(ForeignFile, PENDING, None)}

\* dispatch_tasks: each task is written to <id>.json
RECURSIVE DispatchTasks(_, _)
DispatchTasks(q, tasks) ==
    IF tasks = <<>> THEN q
    ELSE LET task == Head(tasks)
             written == [f \in DOMAIN q \cup {task.id} |->
                            IF f = task.id THEN TaskFile(task.id, task.status, task.worker)
                            ELSE q[f]]
         IN DispatchTasks(written, Tail(tasks))

\* monitor_progress: the status of every file that parses and has an id; a
\* file without status counts as PENDING.
MonitorProgress(q) ==
    LET listed == {f \in DOMAIN q : q[f].valid /\ q[f].id \notin {None, ""}}
    IN [id \in {q[f].id : f \in listed} |->
           LET f == CHOOSE g \in listed : q[g].id = id
           IN IF q[f].status = None THEN PENDING ELSE q[f].status]

\* A variant of is_complete that looks only at the listed ids that have a file.
IsCompleteOfKnown(q, task_ids) ==
    IF task_ids = {} THEN TRUE
    ELSE LET progress == MonitorProgress(q)
         IN \A tid \in task_ids \cap DOMAIN progress : progress[tid] = DONE

\* is_complete(task_ids)
IsComplete(q, task_ids) ==
    IF task_ids = {} THEN TRUE
    ELSE LET progress == MonitorProgress(q)
         IN \A tid \in task_ids : tid \in DOMAIN progress /\ progress[tid] = DONE

\* BaseWorker.process_task_file on a file that parses: the file and the
\* results afterwards, and the exception it raises.
ProcessTaskFile(entry, res, execute_raises) ==
    IF entry.id = None
    THEN [entry |-> [entry EXCEPT !.status = ERROR], results |-> res, exc |-> "KeyError"]
    ELSE IF execute_raises
         THEN [entry |-> [entry EXCEPT !.status = ERROR], results |-> res, exc |-> "Exception"]
         ELSE [entry |-> [entry EXCEPT !.status = DONE], results |-> res \cup {entry.id},
               exc |-> None]

\* The state a pass of execute_pending_tasks works on.
Pass(q, res, registry, imported, exc) ==
    [queue |-> q, results |-> res, registry |-> registry, imported |-> imported, exc |-> exc]

\* The body of the loop of execute_pending_tasks for file f, up to the handlers.
ExecuteTaskFile(p, f, execute_raises) ==
    LET entry == p.queue[f]
        w == GetWorkerClass(p.registry, p.imported, entry.worker)
        done == ProcessTaskFile(entry, p.results, execute_raises)
    IN IF ~entry.valid THEN [p EXCEPT !.exc = "JSONDecodeError"]
       ELSE IF entry.status /= PENDING THEN p
       ELSE IF entry.worker \in {None, ""} THEN p
       ELSE IF w.ret \in {"ValueError", "KeyError"}
            THEN Pass(p.queue, p.results, w.registry, w.imported, w.ret)
            ELSE Pass([p.queue EXCEPT ![f] = done.entry], done.results,
                      w.registry, w.imported, done.exc)

\* A variant of the handlers of execute_pending_tasks with the first clause only,
\* as monitor_progress has them.
RouterCatchesListed(exc) == exc \in {"JSONDecodeError", "KeyError", "OSError"}

\* The handlers of execute_pending_tasks: except (json.JSONDecodeError, KeyError,
\* OSError) and except Exception; every exception of the model is an Exception.
RouterCatches(exc) ==
    \/ exc \in {"JSONDecodeError", "KeyError", "OSError"}
    \/ exc \in {"JSONDecodeError", "KeyError", "OSError", "ValueError", "Exception"}

\* execute_pending_tasks over the files in the order glob yields them, from
\* position i on; raises is the set of files whose worker's execute raises.
RECURSIVE ExecutePendingTasksFrom(_, _, _, _)
ExecutePendingTasksFrom(p, order, i, raises) ==
    IF i > Len(order) THEN p
    ELSE LET r == ExecuteTaskFile(p, order[i], order[i] \in raises)
         IN IF r.exc = None \/ RouterCatches(r.exc)
            THEN ExecutePendingTasksFrom([r EXCEPT !.exc = None], order, i + 1, raises)
            ELSE r

(***************************************************************************)
(* The router specification: tasks are dispatched, files are put into the  *)
(* queue by hand, passes of execute_pending_tasks run and completion is    *)
(* asked for, in any order.  A pass is recorded with the queue it found.   *)
(***************************************************************************)
QueueTask(id, status, worker) == [id |-> id, status |-> status, worker |-> worker]

\* The lists dispatch_tasks is given: none, one task, or two PENDING tasks.
DispatchLists ==
    {<<>>}
    \cup {<<QueueTask(id, status, worker)>> :
             id \in QueueTaskIds, status \in QueueStatus, worker \in QueueWorkers}
    \cup {<<QueueTask("t1", PENDING, "travel"), QueueTask("t2", PENDING, worker)>> :
             worker \in QueueWorkers}

\* The orders in which glob may yield the files of the queue.
GlobOrders(q) ==
    {order \in [1..Cardinality(DOMAIN q) -> DOMAIN q] :
        \A i, j \in DOMAIN order : order[i] = order[j] => i = j}

InitRouter ==
    /\ script = BeeScript("g", 1, <<>>)
    /\ errors = <<>>
    /\ warnings = <<>>
    /\ op = Call("init", None, None)
    /\ accounts = NoAccounts
    /\ transaction_counter = 0
    /\ frame = <<>>
    /\ now = 0
    /\ RouterUnused
    /\ MemoryUnused

DoDispatchTasks ==
    \E tasks \in DispatchLists :
        /\ queue' = DispatchTasks(queue, tasks)
        /\ op' = Call("dispatch_tasks", tasks, None)
        /\ UNCHANGED <<script, errors, warnings, accounts, transaction_counter, frame, now,
                       results, WORKER_REGISTRY, workers_imported, memory>>

\* A file is written into the queue directory by hand.
WriteForeignFile ==
    \E content \in ForeignContents :
        /\ queue' = [f \in DOMAIN queue \cup {ForeignFile} |->
                        IF f = ForeignFile THEN content ELSE queue[f]]
        /\ op' = Call("write", ForeignFile, None)
        /\ UNCHANGED <<script, errors, warnings, accounts, transaction_counter, frame, now,
                       results, WORKER_REGISTRY, workers_imported, memory>>

DoIsComplete ==
    \E task_ids \in SUBSET (QueueTaskIds \cup {"ghost"}) :
        /\ op' = Call("is_complete", task_ids, IsComplete(queue, task_ids))
        /\ UNCHANGED <<script, errors, warnings, accounts, transaction_counter, frame, now,
                       router, memory>>

DoExecutePendingTasks ==
    \E order \in GlobOrders(queue),
       raises \in SUBSET {f \in DOMAIN queue : queue[f].status = PENDING} :
        LET r == ExecutePendingTasksFrom(
                     Pass(queue, results, WORKER_REGISTRY, workers_imported, None),
                     order, 1, raises)
        IN /\ queue' = r.queue
           /\ results' = r.results
           /\ WORKER_REGISTRY' = r.registry
           /\ workers_imported' = r.imported
           /\ op' = Call("execute_pending_tasks", [queue |-> queue, raises |-> raises], r.exc)
           /\ UNCHANGED <<script, errors, warnings, accounts, transaction_counter, frame, now,
                          memory>>

NextRouter == DoDispatchTasks \/ WriteForeignFile \/ DoIsComplete \/ DoExecutePendingTasks

SpecRouter == InitRouter /\ [][NextRouter]_vars

(***************************************************************************)
(* The queue specification: the run of the command line.  Tasks are        *)
(* dispatched once, PENDING as a Task is by default, and passes of         *)
(* execute_pending_tasks follow, as wait_for_completion makes them.  A     *)
(* task file is worked on in the steps of process_task_file, each write    *)
(* of a file being a step, so that the queue is seen between the writes:   *)
(* frame holds the file being worked on and the place in                   *)
(* process_task_file, with the list of the files a worker's execute was    *)
(* started for.                                                            *)
(***************************************************************************)
Worker(at, file, started) == [at |-> at, file |-> file, started |-> started]

InitQueue ==
    /\ script = BeeScript("g", 1, <<>>)
    /\ errors = <<>>
    /\ warnings = <<>>
    /\ op = Call("init", None, None)
    /\ accounts = NoAccounts
    /\ transaction_counter = 0
    /\ frame = Worker("idle", None, <<>>)
    /\ now = 0
    /\ RouterUnused
    /\ MemoryUnused

QueueUnchanged ==
    UNCHANGED <<script, errors, warnings, accounts, transaction_counter, now, memory>>

\* cli.py: router.dispatch_tasks(tasks), once, before anything is executed
QueueDispatchTasks ==
    \E worker1 \in QueueWorkers, worker2 \in QueueWorkers, n \in {1, 2} :
        /\ DOMAIN queue \cap QueueTaskIds = {}
        /\ frame.at = "idle"
        /\ queue' = DispatchTasks(queue,
                        SubSeq(<<QueueTask("t1", PENDING, worker1),
                                 QueueTask("t2", PENDING, worker2)>>, 1, n))
        /\ op' = Call("dispatch_tasks", None, None)
        /\ UNCHANGED <<results, WORKER_REGISTRY, workers_imported, frame>>
        /\ QueueUnchanged

\* A file that is not a dispatched task is put into the queue directory, as
\* comprehensive_bug_test.py does.
QueueWriteForeignFile ==
    \E content \in ForeignContents :
        /\ frame.at = "idle"
        /\ ForeignFile \notin DOMAIN queue
        /\ queue' = [f \in DOMAIN queue \cup {ForeignFile} |->
                        IF f = ForeignFile THEN content ELSE queue[f]]
        /\ op' = Call("write", ForeignFile, None)
        /\ UNCHANGED <<results, WORKER_REGISTRY, workers_imported, frame>>
        /\ QueueUnchanged

\* execute_pending_tasks comes to file f: the tests of the loop body, and, when
\* they let the file through, process_task_file up to its first write, which
\* sets IN_PROGRESS.
QueueTakeFile ==
    \E f \in DOMAIN queue :
        LET r == ExecuteTaskFile(Pass(queue, results, WORKER_REGISTRY, workers_imported, None),
                                 f, FALSE)
        IN /\ frame.at = "idle"
           /\ WORKER_REGISTRY' = r.registry
           /\ workers_imported' = r.imported
           /\ IF r.queue[f] = queue[f]
              THEN UNCHANGED <<queue, frame>>
              ELSE IF queue[f].id = None
                   \* task_data['id'] raises KeyError before the first write:
                   \* the handler writes ERROR
                   THEN queue' = r.queue /\ UNCHANGED frame
                   ELSE /\ queue' = [queue EXCEPT ![f].status = IN_PROGRESS]
                        /\ frame' = Worker("execute", f, Append(frame.started, f))
           /\ op' = Call("execute_pending_tasks", f, None)
           /\ UNCHANGED results
           /\ QueueUnchanged

\* self.execute(**inputs) raises: the handler writes ERROR and raises again,
\* and the router goes on to the next file.
QueueWorkerRaises ==
    /\ frame.at = "execute"
    /\ queue' = [queue EXCEPT ![frame.file].status = ERROR]
    /\ frame' = Worker("idle", None, frame.started)
    /\ op' = Call("process_task_file", frame.file, "Exception")
    /\ UNCHANGED <<results, WORKER_REGISTRY, workers_imported>>
    /\ QueueUnchanged

\* self.execute(**inputs) returns and the result file is written.
QueueWriteResult ==
    /\ frame.at = "execute"
    /\ results' = results \cup {queue[frame.file].id}
    /\ frame' = Worker("written", frame.file, frame.started)
    /\ op' = Call("process_task_file", frame.file, None)
    /\ UNCHANGED <<queue, WORKER_REGISTRY, workers_imported>>
    /\ QueueUnchanged

\* The last write of process_task_file sets DONE.
QueueWriteDone ==
    /\ frame.at = "written"
    /\ queue' = [queue EXCEPT ![frame.file].status = DONE]
    /\ frame' = Worker("idle", None, frame.started)
    /\ op' = Call("process_task_file", frame.file, None)
    /\ UNCHANGED <<results, WORKER_REGISTRY, workers_imported>>
    /\ QueueUnchanged

NextQueue ==
    \/ QueueDispatchTasks
    \/ QueueWriteForeignFile
    \/ QueueTakeFile
    \/ QueueWorkerRaises
    \/ QueueWriteResult
    \/ QueueWriteDone

SpecQueue == InitQueue /\ [][NextQueue]_vars

(***************************************************************************)
(* MemoryManager, memory.py.  The cache self.sessions is a dict, kept here *)
(* as the sequence of its values in insertion order; the storage directory *)
(* maps a session id to the session its file holds.  Times are readings of *)
(* the clock now.                                                          *)
(***************************************************************************)
MaxSessions == 2

MemSessionIds == {"s1", "s2", "s3"}
MemKeys == {"k"}

\* WorkflowMemory(session_id), created at time t; created_at, which nothing reads
\* but persist_session and load_session, is left out.
WorkflowMemory(session_id, t) ==
    [session_id |-> session_id, last_accessed |-> t, entries |-> {}]

\* WorkflowMemory.store(key, value) at time t; the keys of the model do not
\* fill the max_entries of a session.
Store(m, key, t) == [m EXCEPT !.entries = @ \cup {key}, !.last_accessed = t]

CachedIds(ss) == {ss[i].session_id : i \in DOMAIN ss}

\* The position of session_id in the cache; it is in the cache.
PositionOf(ss, session_id) == CHOOSE i \in DOMAIN ss : ss[i].session_id = session_id

\* self.sessions[session_id] = m: a key the dict has keeps its position.
SetSession(ss, session_id, m) ==
    IF session_id \in CachedIds(ss)
    THEN [ss EXCEPT ![PositionOf(ss, session_id)] = m]
    ELSE Append(ss, m)

\* del self.sessions[session_id]
DelSession(ss, session_id) == SelectSeq(ss, LAMBDA m : m.session_id /= session_id)

\* min(self.sessions.keys(), key=last_accessed): the first of the least.
OldestSession(ss) ==
    CHOOSE i \in DOMAIN ss :
        /\ \A j \in DOMAIN ss : ss[i].last_accessed <= ss[j].last_accessed
        /\ \A j \in 1..(i - 1) : ss[j].last_accessed > ss[i].last_accessed

Memory(ss, st, ret) == [sessions |-> ss, storage |-> st, ret |-> ret]

\* persist_session(session_id)
PersistSession(ss, st, session_id) ==
    IF session_id \notin CachedIds(ss) THEN Memory(ss, st, FALSE)
    ELSE Memory(ss,
                [f \in DOMAIN st \cup {session_id} |->
                    IF f = session_id THEN ss[PositionOf(ss, session_id)] ELSE st[f]],
                TRUE)

\* _evict_oldest_session()
EvictOldestSession(ss, st) ==
    IF ss = <<>> THEN Memory(ss, st, None)
    ELSE LET oldest_session_id == ss[OldestSession(ss)].session_id
             persisted == PersistSession(ss, st, oldest_session_id)
         IN Memory(DelSession(ss, oldest_session_id), persisted.storage, None)

\* create_session(session_id) at time t
CreateSession(ss, st, session_id, t) ==
    LET room == IF Len(ss) >= MaxSessions THEN EvictOldestSession(ss, st)
                ELSE Memory(ss, st, None)
    IN Memory(SetSession(room.sessions, session_id, WorkflowMemory(session_id, t)),
              room.storage, session_id)

\* get_or_create_session(session_id) at time t
GetOrCreateSession(ss, st, session_id, t) ==
    IF session_id \in CachedIds(ss) THEN Memory(ss, st, session_id)
    ELSE CreateSession(ss, st, session_id, t)

\* delete_session(session_id)
DeleteSession(ss, st, session_id) ==
    IF session_id \in CachedIds(ss)
    THEN Memory(DelSession(ss, session_id),
                [f \in DOMAIN st \ {session_id} |-> st[f]], TRUE)
    ELSE Memory(ss, st, FALSE)

\* load_session(session_id)
LoadSession(ss, st, session_id) ==
    IF session_id \notin DOMAIN st THEN Memory(ss, st, None)
    ELSE Memory(SetSession(ss, session_id, st[session_id]), st, session_id)

(***************************************************************************)
(* The memory specification: sessions are created, fetched, written to,    *)
(* persisted, loaded and deleted in any order while the clock advances.    *)
(* A create_session is recorded with the cache and the storage it found.   *)
(***************************************************************************)
MemoryArg(session_id, ss, st) == [session_id |-> session_id, sessions |-> ss, storage |-> st]

InitMemory ==
    /\ script = BeeScript("g", 1, <<>>)
    /\ errors = <<>>
    /\ warnings = <<>>
    /\ op = Call("init", None, None)
    /\ accounts = NoAccounts
    /\ transaction_counter = 0
    /\ frame = <<>>
    /\ now = 0
    /\ RouterUnused
    /\ MemoryUnused

MemoryUnchanged ==
    UNCHANGED <<script, errors, warnings, accounts, transaction_counter, frame, now, router,
                entries>>

DoCreateSession ==
    \E session_id \in MemSessionIds :
        LET r == CreateSession(sessions, storage, session_id, now)
        IN /\ sessions' = r.sessions
           /\ storage' = r.storage
           /\ op' = Call("create_session", MemoryArg(session_id, sessions, storage), r.ret)
           /\ MemoryUnchanged

DoGetOrCreateSession ==
    \E session_id \in MemSessionIds :
        LET r == GetOrCreateSession(sessions, storage, session_id, now)
        IN /\ sessions' = r.sessions
           /\ storage' = r.storage
           /\ op' = Call("get_or_create_session", session_id, r.ret)
           /\ MemoryUnchanged

DoStore ==
    \E session_id \in CachedIds(sessions), key \in MemKeys :
        /\ sessions' = [sessions EXCEPT ![PositionOf(sessions, session_id)] =
                            Store(@, key, now)]
        /\ op' = Call("store", session_id, None)
        /\ UNCHANGED storage
        /\ MemoryUnchanged

DoPersistSession ==
    \E session_id \in MemSessionIds :
        LET r == PersistSession(sessions, storage, session_id)
        IN /\ sessions' = r.sessions
           /\ storage' = r.storage
           /\ op' = Call("persist_session", session_id, r.ret)
           /\ MemoryUnchanged

DoLoadSession ==
    \E session_id \in MemSessionIds :
        LET r == LoadSession(sessions, storage, session_id)
        IN /\ sessions' = r.sessions
           /\ storage' = r.storage
           /\ op' = Call("load_session", session_id, r.ret)
           /\ MemoryUnchanged

DoDeleteSession ==
    \E session_id \in MemSessionIds :
        LET r == DeleteSession(sessions, storage, session_id)
        IN /\ sessions' = r.sessions
           /\ storage' = r.storage
           /\ op' = Call("delete_session", session_id, r.ret)
           /\ MemoryUnchanged

\* time.time() moves on between two calls; an earlier and a later reading
\* are told apart.
MemoryTick ==
    /\ now = 0
    /\ now' = now + 1
    /\ op' = Call("tick", None, None)
    /\ UNCHANGED <<script, errors, warnings, accounts, transaction_counter, frame,
                   router, memory>>

NextMemory ==
    \/ DoCreateSession
    \/ DoGetOrCreateSession
    \/ DoStore
    \/ DoPersistSession
    \/ DoLoadSession
    \/ DoDeleteSession
    \/ MemoryTick

SpecMemory == InitMemory /\ [][NextMemory]_vars

(***************************************************************************)
(* WorkflowMemory.entries, memory.py:26-150: one session's dict of         *)
(* MemoryEntry by key, in the order of the dict, which is the order        *)
(* _evict_oldest looks through.  An entry is its key, its value and its    *)
(* last_accessed; timestamp, task_id, agent and access_count decide        *)
(* nothing here.                                                           *)
(***************************************************************************)
MaxEntries == 2                  \* WorkflowMemory.max_entries
MaxEntryClock == 2               \* readings of time.time() that are told apart
EntryKeys == {"a", "b", "c"}
EntryValues == {"v", "w"}

MemoryEntry(key, value, t) == [key |-> key, value |-> value, last_accessed |-> t]

EntryKeysOf(es) == {es[i].key : i \in DOMAIN es}

\* min(self.entries.keys(), key=...): the first of the entries with the least
\* last_accessed
OldestEntry(es) ==
    CHOOSE i \in DOMAIN es :
        /\ \A j \in DOMAIN es : es[i].last_accessed <= es[j].last_accessed
        /\ \A j \in 1..(i - 1) : es[j].last_accessed > es[i].last_accessed

\* _evict_oldest
EvictOldest(es) ==
    IF es = <<>> THEN es
    ELSE LET oldest_key == es[OldestEntry(es)].key
         IN SelectSeq(es, LAMBDA e : e.key /= oldest_key)

\* self.entries[key] = entry: a key the dict has keeps its position
SetEntry(es, entry) ==
    IF entry.key \in EntryKeysOf(es)
    THEN [i \in DOMAIN es |-> IF es[i].key = entry.key THEN entry ELSE es[i]]
    ELSE Append(es, entry)

\* WorkflowMemory.store(key, value) at time t
StoreEntry(es, max_entries, key, value, t) ==
    LET room == IF Len(es) >= max_entries THEN EvictOldest(es) ELSE es
    IN SetEntry(room, MemoryEntry(key, value, t))

\* WorkflowMemory.retrieve(key) at time t
RetrieveEntry(es, key, t) ==
    [i \in DOMAIN es |-> IF es[i].key = key THEN [es[i] EXCEPT !.last_accessed = t]
                         ELSE es[i]]

\* WorkflowMemory.delete(key)
DeleteEntry(es, key) == SelectSeq(es, LAMBDA e : e.key /= key)

(***************************************************************************)
(* The entries specification: one WorkflowMemory of max_entries MaxEntries *)
(* is written to, read and deleted from while the clock advances.  A store *)
(* is recorded with the entries it found.                                  *)
(***************************************************************************)
StoreArg(key, value, es) == [key |-> key, value |-> value, entries |-> es]

InitEntries ==
    /\ script = BeeScript("g", 1, <<>>)
    /\ errors = <<>>
    /\ warnings = <<>>
    /\ op = Call("init", None, None)
    /\ accounts = NoAccounts
    /\ transaction_counter = 0
    /\ frame = <<>>
    /\ now = 0
    /\ RouterUnused
    /\ MemoryUnused

EntriesUnchanged ==
    UNCHANGED <<script, errors, warnings, accounts, transaction_counter, frame, router,
                sessions, storage>>

DoStoreEntry ==
    \E key \in EntryKeys, value \in EntryValues :
        /\ entries' = StoreEntry(entries, MaxEntries, key, value, now)
        /\ op' = Call("store", StoreArg(key, value, entries), None)
        /\ UNCHANGED now
        /\ EntriesUnchanged

DoRetrieveEntry ==
    \E key \in EntryKeys :
        /\ entries' = RetrieveEntry(entries, key, now)
        /\ op' = Call("retrieve", key, key \in EntryKeysOf(entries))
        /\ UNCHANGED now
        /\ EntriesUnchanged

DoDeleteEntry ==
    \E key \in EntryKeys :
        /\ entries' = DeleteEntry(entries, key)
        /\ op' = Call("delete", key, key \in EntryKeysOf(entries))
        /\ UNCHANGED now
        /\ EntriesUnchanged

\* time.time() moves on between two calls
EntriesTick ==
    /\ now < MaxEntryClock
    /\ now' = now + 1
    /\ op' = Call("tick", None, None)
    /\ UNCHANGED entries
    /\ EntriesUnchanged

NextEntries ==
    \/ DoStoreEntry
    \/ DoRetrieveEntry
    \/ DoDeleteEntry
    \/ EntriesTick

SpecEntries == InitEntries /\ [][NextEntries]_vars

(***************************************************************************)
(* The retry cost specification: estimate_retry_cost is called with any    *)
(* base cost and retry count up to the bounds.                             *)
(***************************************************************************)
MaxBaseCost == 30    \* base_cost of an estimate_retry_cost call
MaxRetries == 3      \* retry_count of an estimate_retry_cost call

RetryCostArg(base_cost, retry_count) == [base_cost |-> base_cost, retry_count |-> retry_count]

InitRetryCost ==
    /\ script = BeeScript("g", 1, <<>>)
    /\ errors = <<>>
    /\ warnings = <<>>
    /\ op = Call("init", None, None)
    /\ accounts = NoAccounts
    /\ transaction_counter = 0
    /\ frame = <<>>
    /\ now = 0
    /\ RouterUnused
    /\ MemoryUnused

DoEstimateRetryCost ==
    \E base_cost \in 1..MaxBaseCost, retry_count \in 0..MaxRetries :
        /\ op' = Call("estimate_retry_cost", RetryCostArg(base_cost, retry_count),
                      EstimateRetryCost(base_cost, retry_count))
        /\ UNCHANGED <<script, errors, warnings, accounts, transaction_counter, frame, now,
                       router, memory>>

NextRetryCost == DoEstimateRetryCost

SpecRetryCost == InitRetryCost /\ [][NextRetryCost]_vars

(***************************************************************************)
(* Vocabulary of the properties.                                           *)
(***************************************************************************)
Tasks == DOMAIN script.subtasks
IdOf(i) == script.subtasks[i].id
StatusOf(i) == script.subtasks[i].status
AfterIds(i) == Range(script.subtasks[i].after)
TaskIds == {IdOf(i) : i \in Tasks}

\* The tasks that depend on a task of S, directly or through other tasks.
RECURSIVE DependentsClosure(_)
DependentsClosure(S) ==
    LET more == S \cup {j \in Tasks : \E i \in S : IdOf(i) \in AfterIds(j)}
    IN IF more = S THEN S ELSE DependentsClosure(more)

TransitiveDependents(i) == DependentsClosure({j \in Tasks : IdOf(i) \in AfterIds(j)})

\* The ids a task depends on, directly or through other tasks.
RECURSIVE DependencyClosure(_)
DependencyClosure(D) ==
    LET more == D \cup UNION {AfterIds(j) : j \in {k \in Tasks : IdOf(k) \in D}}
    IN IF more = D THEN D ELSE DependencyClosure(more)

IdsValid ==
    /\ \A i \in Tasks : ~IsBlank(IdOf(i))
    /\ \A i, j \in Tasks : IdOf(i) = IdOf(j) => i = j
RefsValid == \A i \in Tasks : AfterIds(i) \subseteq TaskIds
TaskFieldsValid ==
    \A i \in Tasks :
        LET t == script.subtasks[i]
        IN /\ ~IsBlank(t.agent) /\ ~IsBlank(t.task)
           /\ t.cost_estimate > 0 /\ t.retry_max >= 0 /\ t.timeout_seconds > 0
\* The after-relation has a cycle: some task is among its own dependencies.
Cyclic == \E i \in Tasks : IdOf(i) \in DependencyClosure(AfterIds(i))

CycleErrors(errs) == Len(SelectSeq(errs, LAMBDA e : e.kind = "circular_dependency"))

(***************************************************************************)
(* C1.  When mark_task_failed has moved a task to FAILED, no task that     *)
(* depends on it, directly or transitively, is left PENDING or READY:      *)
(* those that were are SKIPPED.  The original claim; the cascade of the    *)
(* code reaches the direct dependents only.                                *)
(***************************************************************************)
C1_FailureCascadeClosure ==
    \A i \in Tasks :
        (op.name = "mark_task_failed" /\ op.arg = IdOf(i) /\ StatusOf(i) = FAILED)
        => \A j \in TransitiveDependents(i) : StatusOf(j) \notin {PENDING, READY}

(***************************************************************************)
(* C3.  For a graph the validator accepts, get_execution_order returns     *)
(* batches in which every task id occurs exactly once and nothing else     *)
(* occurs, and every dependency of a task lies in a strictly earlier batch.*)
(***************************************************************************)
BatchPositions(batches, id) ==
    {<<b, k>> \in (DOMAIN batches) \X (1..MaxTasks + 1) :
        k \in DOMAIN batches[b] /\ batches[b][k] = id}

BatchOf(batches, id) == CHOOSE b \in DOMAIN batches : id \in Range(batches[b])

C3_ExecutionOrderPartition ==
    op.name = "get_execution_order" =>
        /\ Validate(script).ok <=> ~op.ret.raised
        /\ ~op.ret.raised =>
            LET batches == op.ret.batches
            IN /\ \A b \in DOMAIN batches : Range(batches[b]) \subseteq TaskIds
               /\ \A i \in Tasks : Cardinality(BatchPositions(batches, IdOf(i))) = 1
               /\ \A i \in Tasks : \A d \in AfterIds(i) :
                      BatchOf(batches, d) < BatchOf(batches, IdOf(i))

C3_Witness ==
    /\ op.name = "get_execution_order"
    /\ ~op.ret.raised
    /\ Len(op.ret.batches) >= 2
    /\ \E b \in DOMAIN op.ret.batches : Len(op.ret.batches[b]) >= 2

(***************************************************************************)
(* C4.  A task is handed out only with all its dependencies COMPLETED:     *)
(* right after get_ready_tasks every task it returned is READY and every   *)
(* id in its after-list is that of a COMPLETED task, and a task that       *)
(* can_execute_task reports executable has every dependency COMPLETED.     *)
(***************************************************************************)
AllDependenciesCompleted(i) ==
    \A d \in AfterIds(i) : \E j \in Tasks : IdOf(j) = d /\ StatusOf(j) = COMPLETED

C4_DependencyOrdering ==
    /\ op.name = "get_ready_tasks" =>
           \A k \in DOMAIN op.ret : \A i \in Tasks :
               IdOf(i) = op.ret[k] => StatusOf(i) = READY /\ AllDependenciesCompleted(i)
    /\ (op.name = "can_execute_task" /\ op.ret) =>
           \A i \in Tasks : IdOf(i) = op.arg => AllDependenciesCompleted(i)

C4_Witness ==
    /\ op.name = "get_ready_tasks"
    /\ \E k \in DOMAIN op.ret : \E i \in Tasks :
           IdOf(i) = op.ret[k] /\ AfterIds(i) /= {} /\ AllDependenciesCompleted(i)
    /\ \E i \in Tasks : StatusOf(i) = PENDING /\ ~AllDependenciesCompleted(i)

(***************************************************************************)
(* C5.  total_cost never exceeds budget_credits.  The original claim;      *)
(* the marking operations add any reported cost without a check.           *)
(***************************************************************************)
C5_RuntimeBudget == script.total_cost <= script.budget_credits

(***************************************************************************)
(* C6.  A failure reported for a handed-out task whose retry_count is      *)
(* below retry_max returns it to PENDING with retry_count one higher (so   *)
(* FAILED needs retry_count >= retry_max before the failure).  The         *)
(* original claim; the code compares after incrementing.                   *)
(***************************************************************************)
C6_RetryLimit ==
    [][\A i \in Tasks :
          (/\ op'.name = "mark_task_failed" /\ op'.arg = IdOf(i)
           /\ StatusOf(i) = READY
           /\ script.subtasks[i].retry_count < script.subtasks[i].retry_max)
          => /\ script'.subtasks[i].status = PENDING
             /\ script'.subtasks[i].retry_count = script.subtasks[i].retry_count + 1]_vars

(***************************************************************************)
(* C7.  Once a task is COMPLETED, FAILED or SKIPPED, no step changes its   *)
(* status.  The original claim; mark_task_completed and mark_task_failed   *)
(* assign the status whatever it was.                                      *)
(***************************************************************************)
C7_TerminalAbsorbing ==
    [][\A i \in Tasks :
          StatusOf(i) \in {COMPLETED, FAILED, SKIPPED}
          => script'.subtasks[i].status = StatusOf(i)]_vars

(***************************************************************************)
(* C8.  For a graph with valid ids and dependency references, the cycle    *)
(* check of _validate_dependencies appends exactly one cycle error and     *)
(* returns False when the after-relation has a cycle, and appends none     *)
(* and returns True when it has none.  validate reports no cycle error    *)
(* for an acyclic graph, rejects every cyclic one, and reports exactly     *)
(* one cycle error for a cyclic graph whose tasks pass the per-task checks.*)
(***************************************************************************)
C8_CycleDetection ==
    (IdsValid /\ RefsValid) =>
        /\ op.name = "_validate_dependencies" =>
              /\ op.ret.ok <=> ~Cyclic
              /\ CycleErrors(op.ret.errs) = (IF Cyclic THEN 1 ELSE 0)
              /\ Len(op.ret.errs) = (IF Cyclic THEN 1 ELSE 0)
        /\ op.name = "validate" =>
              /\ ~Cyclic => CycleErrors(errors) = 0
              /\ Cyclic => ~op.ret /\ CycleErrors(errors) <= 1
              /\ (Cyclic /\ TaskFieldsValid) => CycleErrors(errors) = 1

\* A cycle through two or more tasks has been reported by the direct call.
C8_Witness ==
    /\ IdsValid /\ RefsValid /\ Cyclic
    /\ \A i \in Tasks : IdOf(i) \notin AfterIds(i)
    /\ op.name = "_validate_dependencies"
    /\ CycleErrors(op.ret.errs) = 1

(***************************************************************************)
(* C2.  Every account satisfies current_balance = initial_budget -         *)
(* total_spent and total_spent >= 0, hence 0 <= current_balance <=         *)
(* initial_budget, after any sequence of create_account, charge_credits    *)
(* and refund_credits calls.                                               *)
(***************************************************************************)
C2_LedgerBalance ==
    \A sid \in DOMAIN accounts :
        LET a == accounts[sid]
        IN /\ a.current_balance = a.initial_budget - a.total_spent
           /\ a.total_spent >= 0
           /\ 0 <= a.current_balance
           /\ a.current_balance <= a.initial_budget

\* A refund asked for more than was spent has been capped, after a charge larger
\* than the balance had been turned down.
C2_Witness ==
    /\ op.name = "refund_credits" /\ op.ret = "True"
    /\ LET a == accounts[op.arg.session_id]
       IN /\ a.transactions /= <<>>
          /\ -(a.transactions[Len(a.transactions)].amount) < op.arg.amount
          /\ a.total_spent = 0
          /\ a.current_balance = a.initial_budget

(***************************************************************************)
(* C9.  A charge on an existing account with amount <= 0 raises, and one   *)
(* with amount > current_balance returns False; a charge that does not     *)
(* return True leaves the accounts (balance, total spent, transactions)    *)
(* and the transaction counter as they were.                               *)
(***************************************************************************)
C9_RejectedChargeUnchanged ==
    [][(op'.name = "charge_credits" /\ op'.arg.session_id \in DOMAIN accounts) =>
          LET a == accounts[op'.arg.session_id]
              rejected == /\ accounts' = accounts
                          /\ transaction_counter' = transaction_counter
          IN /\ op'.arg.amount <= 0 => (op'.ret = "ValueError" /\ rejected)
             /\ op'.arg.amount > a.current_balance => (op'.ret = "False" /\ rejected)
             /\ op'.ret /= "True" => rejected]_vars

\* An overspend has been turned down while credits were left to clamp it to.
C9_Witness ==
    /\ op.name = "charge_credits" /\ op.ret = "False"
    /\ op.arg.session_id \in DOMAIN accounts
    /\ LET a == accounts[op.arg.session_id]
       IN /\ a.current_balance > 0
          /\ op.arg.amount > a.current_balance
          /\ a.transactions /= <<>>

(***************************************************************************)
(* C10.  Concurrent charges on one account never make current_balance      *)
(* negative, and the charges accepted never sum to more than the balance   *)
(* that was available.  The original claim; the check and the deduction    *)
(* are separate statements and another caller may run between them.        *)
(***************************************************************************)
AcceptedCharges ==
    LET paid(t) == IF frame[t].ret = "True" THEN frame[t].amount ELSE 0
    IN paid("t1") + paid("t2")

C10_LedgerAtomicity ==
    \A sid \in DOMAIN accounts :
        /\ accounts[sid].current_balance >= 0
        /\ AcceptedCharges <= accounts[sid].initial_budget

(***************************************************************************)
(* C11.  In a driven run every task ends COMPLETED, FAILED or SKIPPED: a   *)
(* run that has come to rest (no task is handed out and get_ready_tasks    *)
(* has none to hand out) has no task left PENDING.  The original claim,    *)
(* in the form a finite run refutes: from a state at rest no operation of  *)
(* the run changes a status, so a task PENDING there stays PENDING for     *)
(* ever.  The cascade of C1 leaves the dependents of a skipped task        *)
(* PENDING.                                                                *)
(***************************************************************************)
Terminal(i) == StatusOf(i) \in {COMPLETED, FAILED, SKIPPED}

AtRest ==
    /\ \A i \in Tasks : StatusOf(i) /= READY
    /\ GetReadyTasks(script).ret = <<>>

C11_RunCompletion == AtRest => \A i \in Tasks : Terminal(i)

(***************************************************************************)
(* C12.  A failure returns a task to PENDING only if the cost of the       *)
(* retry it then has before it, estimate_retry_cost(cost_estimate,         *)
(* retry_count), is covered by the balance left on the session's account;  *)
(* otherwise the task becomes FAILED.  The original claim;                 *)
(* mark_task_failed looks at retry_count and retry_max only.               *)
(***************************************************************************)
C12_RetryBudgetGated ==
    [][\A i \in Tasks :
          (/\ op'.name = "mark_task_failed" /\ op'.arg = IdOf(i)
           /\ script'.subtasks[i].status = PENDING)
          => EstimateRetryCost(script.subtasks[i].cost_estimate,
                               script'.subtasks[i].retry_count)
                 <= accounts["s1"].current_balance]_vars

(***************************************************************************)
(* C13.  validate accepts a graph if and only if the goal is not empty     *)
(* (nor blank), budget_credits > 0, there is at least one task, every      *)
(* task has a non-empty id, agent and kind, the ids are pairwise distinct, *)
(* every cost_estimate > 0, retry_max >= 0 and timeout_seconds > 0, every  *)
(* after-entry names an existing id, the after-relation is acyclic, and    *)
(* the cost estimates sum to at most budget_credits.                       *)
(***************************************************************************)
WithinBudget == TotalEstimatedCost(script) <= script.budget_credits

WellFormed ==
    /\ ~IsBlank(script.goal)
    /\ script.budget_credits > 0
    /\ Tasks /= {}
    /\ IdsValid
    /\ TaskFieldsValid
    /\ RefsValid
    /\ ~Cyclic

C13_ValidateAcceptsIff ==
    op.name = "validate" => (op.ret <=> (WellFormed /\ WithinBudget))

\* A graph with dependencies has been accepted.
C13_Witness ==
    /\ op.name = "validate" /\ op.ret
    /\ Len(script.subtasks) >= 2
    /\ \E i \in Tasks : AfterIds(i) /= {}

(***************************************************************************)
(* C14.  An otherwise well-formed graph whose cost estimates sum to more   *)
(* than budget_credits fails validation with a budget error in the error   *)
(* list, and the rejection leaves every task PENDING with its cost and     *)
(* retry fields, and the graph's total_cost, as they were.                 *)
(***************************************************************************)
C14_BudgetRejection ==
    [][(op'.name = "validate" /\ WellFormed /\ ~WithinBudget) =>
          /\ ~op'.ret
          /\ \E k \in DOMAIN errors' : errors'[k].kind = "over_budget"
          /\ script' = script
          /\ \A i \in Tasks : StatusOf(i) = PENDING]_vars

\* A graph of two tasks or more has been rejected for its budget alone.
C14_Witness ==
    /\ op.name = "validate" /\ ~op.ret
    /\ WellFormed /\ ~WithinBudget
    /\ Len(script.subtasks) >= 2
    /\ errors = <<Err("over_budget", "")>>

(***************************************************************************)
(* C15.  validate reports every independent defect of a graph in one       *)
(* pass: after a call the error list holds the error of every task that    *)
(* fails its own checks and an unknown-dependency error for every task     *)
(* with a dangling after-entry.  The original claim; validate returns at   *)
(* the first task that fails and at the first dangling entry.              *)
(***************************************************************************)
EarlierIds(i) == {IdOf(j) : j \in {k \in Tasks : k < i}}

OwnError(i) == ValidateTaskError(script.subtasks[i], EarlierIds(i))

C15_AllErrorsReported ==
    op.name = "validate" =>
        /\ \A i \in Tasks : OwnError(i) /= NoError => OwnError(i) \in Range(errors)
        /\ \A i \in Tasks :
               (OwnError(i) = NoError /\ ~(AfterIds(i) \subseteq TaskIds))
               => Err("unknown_dependency", IdOf(i)) \in Range(errors)

(***************************************************************************)
(* C16.  validate changes no field of the graph, and a validation of the   *)
(* unmodified graph yields the same result, error list and warning list    *)
(* whatever the validator checked before: those of a validator that has    *)
(* validated nothing yet, and those of the validation just before it.      *)
(***************************************************************************)
C16_ValidateIdempotent ==
    [][op'.name = "validate" =>
          /\ script' = script
          /\ op'.ret = Validate(script).ok
          /\ errors' = Validate(script).errors
          /\ warnings' = Validate(script).warnings
          /\ op.name = "validate" =>
                 (op'.ret = op.ret /\ errors' = errors /\ warnings' = warnings)]_vars

\* A graph has been validated by a validator that held the errors of two earlier
\* dependency checks, and the list holds the one error of this validation.
C16_Witness ==
    /\ op.name = "validate" /\ ~op.ret
    /\ Len(op.arg) >= 2
    /\ Len(errors) = 1

(***************************************************************************)
(* C17.  refund_credits(amount) credits back min(amount, total_spent);     *)
(* the refunds recorded on an account never sum to more than its charges   *)
(* and current_balance never exceeds initial_budget; a refund asked for    *)
(* when total_spent is 0 returns False and changes nothing.                *)
(***************************************************************************)
Min(a, b) == IF a <= b THEN a ELSE b

Charged(account) ==
    SumSeq([k \in DOMAIN account.transactions |->
               IF account.transactions[k].amount > 0 THEN account.transactions[k].amount ELSE 0])

Refunded(account) ==
    SumSeq([k \in DOMAIN account.transactions |->
               IF account.transactions[k].amount < 0 THEN -account.transactions[k].amount ELSE 0])

C17_RefundCap ==
    /\ [](\A sid \in DOMAIN accounts :
             /\ Refunded(accounts[sid]) <= Charged(accounts[sid])
             /\ accounts[sid].current_balance <= accounts[sid].initial_budget)
    /\ [][(/\ op'.name = "refund_credits"
           /\ op'.arg.session_id \in DOMAIN accounts
           /\ op'.arg.amount > 0) =>
             LET sid == op'.arg.session_id
                 a == accounts[sid]
                 back == Min(op'.arg.amount, a.total_spent)
             IN IF a.total_spent = 0
                THEN /\ op'.ret = "False"
                     /\ accounts' = accounts
                     /\ transaction_counter' = transaction_counter
                ELSE /\ op'.ret = "True"
                     /\ accounts'[sid].current_balance = a.current_balance + back
                     /\ accounts'[sid].total_spent = a.total_spent - back
                     /\ accounts'[sid].transactions =
                            Append(a.transactions,
                                   CreditTransaction(transaction_counter + 1, REFUND, -back))]_vars

\* A refund has been refused on an account whose charges were all refunded.
C17_Witness ==
    /\ op.name = "refund_credits" /\ op.ret = "False" /\ op.arg.amount > 0
    /\ op.arg.session_id \in DOMAIN accounts
    /\ LET a == accounts[op.arg.session_id]
       IN /\ a.total_spent = 0
          /\ Len(a.transactions) >= 2
          /\ Refunded(a) = Charged(a)

(***************************************************************************)
(* C18.  Once the graph's timeout has elapsed, an operation of the         *)
(* executor hands out no task and returns none for a retry, and leaves     *)
(* every task COMPLETED, FAILED or SKIPPED (those that were not terminal   *)
(* are failed or skipped).  The original claim; no operation of the        *)
(* executor reads timeout_minutes or a clock.                              *)
(***************************************************************************)
C18_RunDeadline ==
    [][(/\ now >= script.timeout_minutes
        /\ op'.name \in {"get_ready_tasks", "mark_task_completed", "mark_task_failed"}) =>
          /\ op'.name = "get_ready_tasks" => op'.ret = <<>>
          /\ \A i \in Tasks :
                script'.subtasks[i].status \in {COMPLETED, FAILED, SKIPPED}]_vars

(***************************************************************************)
(* C19.  Structural errors are always fatal: generate_beescript returns a  *)
(* graph only when the graph parsed from the response of the attempt has   *)
(* non-blank, distinct task ids, no dependency on a task that does not     *)
(* exist and no dependency cycle; a response with such a defect makes the  *)
(* call raise, the repair pass being for budget errors only.               *)
(***************************************************************************)
C19_StructuralErrorsFatal ==
    [][(op.ret = "response" /\ op'.ret = "script") =>
           (IdsValid /\ RefsValid /\ ~Cyclic)]_vars

(***************************************************************************)
(* C20.  After _attempt_script_repair on a graph with a positive budget    *)
(* the task ids are non-blank and pairwise distinct, every after-entry     *)
(* names a task of the graph, and the estimates sum to at most the budget, *)
(* and to at most 90% of it when they were rescaled.                       *)
(***************************************************************************)
C20_RepairResult ==
    (op.name = "generate_beescript" /\ op.arg.repaired /\ script.budget_credits > 0) =>
        /\ IdsValid
        /\ RefsValid
        /\ WithinBudget
        /\ op.arg.rescaled => 10 * TotalEstimatedCost(script) <= 9 * script.budget_credits

(***************************************************************************)
(* C25.  A charge of an existing account with 0 < amount <=                *)
(* current_balance returns True, lowers current_balance by exactly amount, *)
(* raises total_spent by exactly amount and appends one transaction that   *)
(* carries the amount; the account's budget and earlier transactions stay. *)
(***************************************************************************)
C25_ChargeEffect ==
    [][(/\ op'.name = "charge_credits"
        /\ op'.arg.session_id \in DOMAIN accounts
        /\ 0 < op'.arg.amount
        /\ op'.arg.amount <= accounts[op'.arg.session_id].current_balance) =>
          LET before == accounts[op'.arg.session_id]
              after == accounts'[op'.arg.session_id]
          IN /\ op'.ret = "True"
             /\ after.current_balance = before.current_balance - op'.arg.amount
             /\ after.total_spent = before.total_spent + op'.arg.amount
             /\ after.initial_budget = before.initial_budget
             /\ Len(after.transactions) = Len(before.transactions) + 1
             /\ SubSeq(after.transactions, 1, Len(before.transactions)) = before.transactions
             /\ after.transactions[Len(after.transactions)].amount = op'.arg.amount]_vars

\* Part of a budget of three credits has been charged in one call.
C25_Witness ==
    /\ op.name = "charge_credits" /\ op.ret = "True" /\ op.arg.amount = 2
    /\ op.arg.session_id \in DOMAIN accounts
    /\ LET a == accounts[op.arg.session_id]
       IN /\ a.initial_budget = 3 /\ a.current_balance = 1 /\ a.total_spent = 2
          /\ Len(a.transactions) = 1

(***************************************************************************)
(* C26.  get_ready_tasks returns exactly the tasks that, in the state of   *)
(* the call, are PENDING and have every task of their after-list           *)
(* COMPLETED, each of them once.                                           *)
(***************************************************************************)
Eligible(i) ==
    /\ StatusOf(i) = PENDING
    /\ \A d \in AfterIds(i) : \E j \in Tasks : IdOf(j) = d /\ StatusOf(j) = COMPLETED

C26_ReadySet ==
    [][op'.name = "get_ready_tasks" =>
          /\ Range(op'.ret) = {IdOf(i) : i \in {j \in Tasks : Eligible(j)}}
          /\ Len(op'.ret) = Cardinality({j \in Tasks : Eligible(j)})]_vars

\* A task with a COMPLETED dependency has been returned while a PENDING task
\* that waits for it was not.
C26_Witness ==
    /\ op.name = "get_ready_tasks"
    /\ \E i, j \in Tasks :
          /\ op.ret = <<IdOf(i)>>
          /\ AfterIds(i) /= {} /\ StatusOf(i) = READY
          /\ IdOf(i) \in AfterIds(j) /\ StatusOf(j) = PENDING

(***************************************************************************)
(* C27.  The ready-set query commits nothing to the graph: a               *)
(* get_ready_tasks call that directly follows another one, with no status  *)
(* operation in between, returns the same tasks as the first.              *)
(***************************************************************************)
C27_ReadinessNotStored ==
    [][(op.name = "get_ready_tasks" /\ op'.name = "get_ready_tasks") =>
           op'.ret = op.ret]_vars

(***************************************************************************)
(* C28.  The batches of get_execution_order are maximal layers: batch k    *)
(* holds every task whose dependencies all lie in earlier batches and      *)
(* that is in no earlier batch.  So the first batch is the tasks with an   *)
(* empty after-list, a task of a later batch has a dependency in the       *)
(* batch just before, and there are as many batches as the longest         *)
(* dependency chain has tasks.                                             *)
(***************************************************************************)
MaxOf(S) == CHOOSE x \in S : \A y \in S : y <= x

\* The number of tasks on the longest dependency chain that ends in task i.
RECURSIVE ChainLength(_)
ChainLength(i) ==
    IF AfterIds(i) = {} THEN 1
    ELSE 1 + MaxOf({ChainLength(j) : j \in {k \in Tasks : IdOf(k) \in AfterIds(i)}})

EarlierBatches(batches, k) == UNION {Range(batches[j]) : j \in 1..(k - 1)}

C28_MaximalLayers ==
    (op.name = "get_execution_order" /\ ~op.ret.raised) =>
        LET batches == op.ret.batches
        IN /\ \A k \in DOMAIN batches :
                  Range(batches[k]) =
                      {IdOf(i) : i \in {j \in Tasks :
                          /\ AfterIds(j) \subseteq EarlierBatches(batches, k)
                          /\ IdOf(j) \notin EarlierBatches(batches, k)}}
           /\ Range(batches[1]) = {IdOf(i) : i \in {j \in Tasks : AfterIds(j) = {}}}
           /\ \A k \in DOMAIN batches : k > 1 =>
                  \A i \in Tasks : IdOf(i) \in Range(batches[k]) =>
                      AfterIds(i) \cap Range(batches[k - 1]) /= {}
           /\ Len(batches) = MaxOf({ChainLength(i) : i \in Tasks})

\* An order of two batches for three tasks: the chain is shorter than the graph.
C28_Witness ==
    /\ op.name = "get_execution_order"
    /\ ~op.ret.raised
    /\ Cardinality(Tasks) = 3
    /\ Len(op.ret.batches) = 2
    /\ \E i \in Tasks : Cardinality(AfterIds(i)) = 2

(***************************************************************************)
(* C29.  No spurious skip: a task is SKIPPED only if a task it depends     *)
(* on, directly or through other tasks, is FAILED.                         *)
(***************************************************************************)
C29_NoSpuriousSkip ==
    \A i \in Tasks :
        StatusOf(i) = SKIPPED =>
            \E j \in Tasks : /\ IdOf(j) \in DependencyClosure(AfterIds(i))
                             /\ StatusOf(j) = FAILED

(***************************************************************************)
(* C30.  Frame of a failure: mark_task_failed(t) changes of t only         *)
(* retry_count, error_message, actual_cost and status, and of the graph    *)
(* only total_cost; another task changes only when t has become FAILED,    *)
(* the task depends on t and was PENDING or READY, and then only its       *)
(* status, to SKIPPED.  So the other tasks that are COMPLETED, FAILED or   *)
(* SKIPPED and the tasks that do not depend on t stay as they were.        *)
(***************************************************************************)
C30_FailureFrame ==
    [][op'.name = "mark_task_failed" =>
          /\ [script' EXCEPT !.subtasks = script.subtasks,
                             !.total_cost = script.total_cost] = script
          /\ DOMAIN script'.subtasks = Tasks
          /\ \A i \in Tasks :
                IF IdOf(i) = op'.arg
                THEN [script'.subtasks[i] EXCEPT !.retry_count = script.subtasks[i].retry_count,
                                                 !.error_message = script.subtasks[i].error_message,
                                                 !.actual_cost = script.subtasks[i].actual_cost,
                                                 !.status = StatusOf(i)] = script.subtasks[i]
                ELSE \/ script'.subtasks[i] = script.subtasks[i]
                     \/ /\ \E k \in Tasks : /\ IdOf(k) = op'.arg
                                            /\ script'.subtasks[k].status = FAILED
                        /\ op'.arg \in DependencyClosure(AfterIds(i))
                        /\ StatusOf(i) \in {PENDING, READY}
                        /\ script'.subtasks[i] = [script.subtasks[i] EXCEPT !.status = SKIPPED]]_vars

\* A task has become FAILED: one of its dependents was skipped, another one,
\* COMPLETED before, was left alone.
C30_Witness ==
    /\ op.name = "mark_task_failed"
    /\ \E k, i, j \in Tasks :
          /\ IdOf(k) = op.arg /\ StatusOf(k) = FAILED
          /\ IdOf(k) \in AfterIds(i) /\ StatusOf(i) = SKIPPED
          /\ IdOf(k) \in AfterIds(j) /\ StatusOf(j) = COMPLETED

(***************************************************************************)
(* C24.  Worker registration is unique: registering under a name that is   *)
(* in the registry raises ValueError and leaves the registry as it was;    *)
(* registering under a new name adds that name with the class given and    *)
(* changes no other name.  So a name keeps the class registered first.     *)
(***************************************************************************)
C24_RegistrationUnique ==
    op.name = "register_worker" =>
        LET before == op.arg.registry
        IN IF op.arg.name \in DOMAIN before
           THEN op.ret = "ValueError" /\ WORKER_REGISTRY = before
           ELSE /\ op.ret = op.arg.cls
                /\ DOMAIN WORKER_REGISTRY = DOMAIN before \cup {op.arg.name}
                /\ WORKER_REGISTRY[op.arg.name] = op.arg.cls
                /\ \A n \in DOMAIN before : WORKER_REGISTRY[n] = before[n]

\* A second class was refused for the name the workers package registered.
C24_Witness ==
    /\ op.name = "register_worker" /\ op.ret = "ValueError"
    /\ op.arg.name = "travel" /\ op.arg.cls = "DuplicateWorker"
    /\ WORKER_REGISTRY["travel"] = "TravelWorker"
    /\ workers_imported = {"travel", "finance"}

\* C22: is_complete(task_ids) returns true exactly when every listed id has a
\* queue entry whose status is DONE: true for the empty list, false as soon as
\* a listed task is PENDING, IN_PROGRESS, ERROR or has no entry.
C22_CompletionCheck ==
    op.name = "is_complete" =>
        (op.ret <=> \A tid \in op.arg :
                        \E f \in DOMAIN queue :
                            queue[f].valid /\ queue[f].id = tid /\ queue[f].status = DONE)

\* Both dispatched tasks are DONE beside a file that is not JSON, and
\* is_complete of the two says so.
C22_Witness ==
    /\ op.name = "is_complete"
    /\ op.arg = QueueTaskIds
    /\ op.ret = TRUE
    /\ ForeignFile \in DOMAIN queue
    /\ ~queue[ForeignFile].valid

\* C23: a pass of execute_pending_tasks lets no exception escape; an entry that
\* is PENDING and names a registered worker is executed, to DONE with its result
\* written or to ERROR when it has no id or its worker raises, whatever else the
\* queue holds; every other file, an entry naming an unregistered worker among
\* them, is left as it was.
C23_PassNeverFails ==
    op.name = "execute_pending_tasks" =>
        /\ op.ret = None
        /\ DOMAIN queue = DOMAIN op.arg.queue
        /\ \A f \in DOMAIN op.arg.queue :
               LET entry == op.arg.queue[f]
               IN IF /\ entry.valid
                     /\ entry.status = PENDING
                     /\ entry.worker \in DOMAIN WORKER_REGISTRY
                  THEN IF entry.id = None \/ f \in op.arg.raises
                       THEN queue[f] = [entry EXCEPT !.status = ERROR]
                       ELSE /\ queue[f] = [entry EXCEPT !.status = DONE]
                            /\ entry.id \in results
                  ELSE queue[f] = entry

\* A pass over a file that is not JSON, a PENDING task of an unregistered worker
\* and a PENDING task whose worker raises, and a pass that executes a task to DONE
\* beside the first two.
C23_Witness ==
    /\ op.name = "execute_pending_tasks"
    /\ ForeignFile \in DOMAIN op.arg.queue
    /\ ~op.arg.queue[ForeignFile].valid
    /\ {"t1", "t2"} \subseteq DOMAIN op.arg.queue
    /\ op.arg.queue["t1"] = TaskFile("t1", PENDING, "ghost")
    /\ op.arg.queue["t2"] = TaskFile("t2", PENDING, "travel")
    /\ queue["t1"].status = PENDING
    /\ queue["t2"].status = DONE

(***************************************************************************)
(* C21.  A create_session that finds the cache holding max_sessions        *)
(* sessions or more evicts exactly one of them: a session none is older    *)
(* than by last activity, whose file holds it as it was; every other       *)
(* session that was cached is cached still, as it was, and the cache holds *)
(* the ids it held, less the evicted, plus the created.                    *)
(***************************************************************************)
C21_EvictionAtCapacity ==
    (op.name = "create_session" /\ Len(op.arg.sessions) >= MaxSessions) =>
        \E i \in DOMAIN op.arg.sessions :
            LET before == op.arg.sessions
                evicted == before[i]
            IN /\ \A j \in DOMAIN before : evicted.last_accessed <= before[j].last_accessed
               /\ evicted.session_id \in DOMAIN storage
               /\ storage[evicted.session_id] = evicted
               /\ CachedIds(sessions) =
                      (CachedIds(before) \ {evicted.session_id}) \cup {op.arg.session_id}
               /\ \A j \in DOMAIN before \ {i} :
                      \E k \in DOMAIN sessions : sessions[k] = before[j]

(***************************************************************************)
(* C31.  The skip cascade of one failure ends, and it assigns SKIPPED to a *)
(* task at most once: the assignments it makes are no more than the graph  *)
(* has tasks, no task is assigned twice, the tasks assigned are the tasks  *)
(* the call turned SKIPPED, and each of them was PENDING or READY before.  *)
(***************************************************************************)
C31_CascadeMarksOnce ==
    [][\A k \in Tasks :
          (/\ op'.name = "mark_task_failed"
           /\ op'.arg = IdOf(k)
           /\ script'.subtasks[k].status = FAILED) =>
              LET cascade == MarkSkippedLogged(
                                 Logged([script.subtasks EXCEPT ![k].status = FAILED], <<>>),
                                 IdOf(k), IdOf(k), 1)
                  marked == cascade.marked
              IN /\ Len(marked) <= Len(script.subtasks)
                 /\ \A a, b \in DOMAIN marked : marked[a] = marked[b] => a = b
                 /\ Range(marked) =
                        {IdOf(i) : i \in {j \in Tasks :
                                             /\ StatusOf(j) /= SKIPPED
                                             /\ script'.subtasks[j].status = SKIPPED}}
                 /\ \A i \in Tasks : IdOf(i) \in Range(marked) =>
                        StatusOf(i) \in {PENDING, READY}
                 /\ \A i \in Tasks :
                        cascade.subtasks[i].status = script'.subtasks[i].status]_vars

\* A failure whose cascade turned two tasks SKIPPED.
C31_Witness ==
    /\ op.name = "mark_task_failed"
    /\ \E k, i, j \in Tasks :
          /\ i /= j
          /\ IdOf(k) = op.arg /\ StatusOf(k) = FAILED
          /\ IdOf(k) \in AfterIds(i) /\ StatusOf(i) = SKIPPED
          /\ IdOf(k) \in AfterIds(j) /\ StatusOf(j) = SKIPPED

(***************************************************************************)
(* C32.  Cost accounting: the graph's total_cost is the sum of the         *)
(* actual_cost of its tasks, in every state.                               *)
(***************************************************************************)
C32_CostAccounting ==
    script.total_cost = SumSeq([i \in Tasks |-> script.subtasks[i].actual_cost])

(***************************************************************************)
(* C33.  Retry counter bound: every task of a run has                      *)
(* 0 <= retry_count <= retry_max, a task with retry_max = 0 included.      *)
(***************************************************************************)
C33_RetryCountBound ==
    \A i \in Tasks :
        /\ 0 <= script.subtasks[i].retry_count
        /\ script.subtasks[i].retry_count <= script.subtasks[i].retry_max

(***************************************************************************)
(* C34.  First attempt: can_execute_task returns true for a task that was  *)
(* never attempted (retry_count = 0), whose dependencies are all COMPLETED *)
(* and whose cost estimate fits the remaining budget, whatever retry_max   *)
(* validation allowed it, 0 included.                                      *)
(***************************************************************************)
C34_FirstAttempt ==
    op.name = "can_execute_task" =>
        \A i \in Tasks :
            (/\ IdOf(i) = op.arg
             /\ script.subtasks[i].retry_count = 0
             /\ \A d \in Tasks : IdOf(d) \in AfterIds(i) => StatusOf(d) = COMPLETED
             /\ script.total_cost + script.subtasks[i].cost_estimate <= script.budget_credits)
            => op.ret = TRUE

(***************************************************************************)
(* C35.  Budget pre-flight: can_execute_task returns false for a task      *)
(* whose cost_estimate exceeds what is left of the budget                  *)
(* (total_cost + cost_estimate > budget_credits), so a task is reported    *)
(* executable only when the budget covers its estimate; and the check      *)
(* changes nothing: the graph, the status of the task included, and the    *)
(* accounts are after the call what they were before.                      *)
(***************************************************************************)
C35_BudgetPreflight ==
    /\ [](op.name = "can_execute_task" =>
            \A i \in Tasks :
                (/\ IdOf(i) = op.arg
                 /\ script.total_cost + script.subtasks[i].cost_estimate
                        > script.budget_credits)
                => op.ret = FALSE)
    /\ [][op'.name = "can_execute_task" =>
            UNCHANGED <<script, errors, warnings, accounts, transaction_counter>>]_vars

\* A handed-out task that was never attempted, with every dependency COMPLETED,
\* is reported not executable because the budget is used up.
C35_Witness ==
    /\ op.name = "can_execute_task"
    /\ op.ret = FALSE
    /\ \E i \in Tasks :
          /\ IdOf(i) = op.arg
          /\ StatusOf(i) = READY
          /\ script.subtasks[i].retry_count < script.subtasks[i].retry_max
          /\ DependenciesSatisfied(script, script.subtasks[i])
          /\ script.total_cost + script.subtasks[i].cost_estimate > script.budget_credits

C37_TransactionLog ==
    /\ [](\A sid \in DOMAIN accounts :
            LET log == accounts[sid].transactions
            IN /\ SumSeq([k \in DOMAIN log |-> log[k].amount]) = accounts[sid].total_spent
               /\ \A k \in DOMAIN log : log[k].transaction_id \in 1..transaction_counter
               /\ \A k \in DOMAIN log, other \in DOMAIN accounts :
                      \A j \in DOMAIN accounts[other].transactions :
                          log[k].transaction_id
                                  = accounts[other].transactions[j].transaction_id
                              => (other = sid /\ j = k))
    /\ [][op'.name \in {"charge_credits", "refund_credits"} =>
            IF op'.ret = "True"
            THEN LET sid == op'.arg.session_id
                     before == accounts[sid].transactions
                     after == accounts'[sid].transactions
                 IN /\ DOMAIN accounts' = DOMAIN accounts
                    /\ Len(after) = Len(before) + 1
                    /\ SubSeq(after, 1, Len(before)) = before
                    /\ \A other \in DOMAIN accounts :
                           \A j \in DOMAIN accounts[other].transactions :
                               after[Len(after)].transaction_id
                                   /= accounts[other].transactions[j].transaction_id
                    /\ after[Len(after)].transaction_id > transaction_counter
                    /\ \A other \in DOMAIN accounts \ {sid} : accounts'[other] = accounts[other]
            ELSE accounts' = accounts]_vars

\* An account with a charge and a refund on its log, the last call a success,
\* beside another account that has been charged.
C37_Witness ==
    /\ op.name = "refund_credits"
    /\ op.ret = "True"
    /\ LET log == accounts[op.arg.session_id].transactions
       IN /\ Len(log) >= 2
          /\ log[1].amount > 0
          /\ log[Len(log)].amount < 0
    /\ \E other \in DOMAIN accounts \ {op.arg.session_id} :
          accounts[other].transactions /= <<>>

\* C38: the status of a queue entry only moves PENDING -> IN_PROGRESS -> DONE
\* or IN_PROGRESS -> ERROR; an entry that is DONE has its result file, an entry
\* that is ERROR has none, and no entry is executed twice, the entry a worker
\* is executing being IN_PROGRESS.
C38_QueueLifecycle ==
    /\ [](/\ \A f \in DOMAIN queue :
                 /\ (queue[f].valid /\ queue[f].status = DONE) => queue[f].id \in results
                 /\ (queue[f].valid /\ queue[f].status = ERROR) => queue[f].id \notin results
          /\ \A i, j \in 1..Len(frame.started) :
                 frame.started[i] = frame.started[j] => i = j
          /\ frame.at = "execute" => queue[frame.file].status = IN_PROGRESS
          /\ frame.at = "written" => queue[frame.file].status = IN_PROGRESS)
    /\ [][\A f \in DOMAIN queue :
              (queue[f].valid /\ queue'[f].status /= queue[f].status) =>
                  <<queue[f].status, queue'[f].status>> \in
                      {<<PENDING, IN_PROGRESS>>, <<IN_PROGRESS, DONE>>,
                       <<IN_PROGRESS, ERROR>>}]_vars

\* C39: whatever calls of create_session, get_or_create_session, load_session
\* and delete_session were made, the cache holds at most max_sessions
\* sessions.
C39_SessionCacheBound == Len(sessions) <= MaxSessions

\* C40: store removes an entry only when the key stored is new and the memory
\* holds max_entries entries already; a store under a key the memory has
\* replaces that entry and leaves every other entry as it was; the memory
\* never holds more than max_entries entries.
C40_EvictionMakesRoom ==
    /\ Len(entries) <= MaxEntries
    /\ op.name = "store" =>
           LET before == op.arg.entries
               key == op.arg.key
               removed == EntryKeysOf(before) \ EntryKeysOf(entries)
           IN /\ removed /= {} => (key \notin EntryKeysOf(before) /\ Len(before) >= MaxEntries)
              /\ key \in EntryKeysOf(before) =>
                     /\ EntryKeysOf(entries) = EntryKeysOf(before)
                     /\ \A i \in DOMAIN before :
                            before[i].key /= key =>
                                \E j \in DOMAIN entries : entries[j] = before[i]
              /\ \E j \in DOMAIN entries :
                     entries[j] = MemoryEntry(key, op.arg.value, now)

=========================================================================
